---- MODULE Spec2Model ----
(***************************************************************************)
(* Verification model of the Agent keyword library (aidriventesting/agent). *)
(*                                                                         *)
(*   Spec          the keyword surface: Agent.Do, Agent.VisualCheck and    *)
(*                 Agent.Autonumous as the host runner calls them, one     *)
(*                 keyword at a time (AgentKeywords / AgentStepRunner).    *)
(*   SpecVisualAssert  _execute_visual_check_from_tool_calls called with   *)
(*                 a result dict.                                          *)
(*   SpecUpload    the ImageUploader facade called on its own.             *)
(*   SpecCost      the TokenHelper cost ledger used by one caller.         *)
(*   SpecConcurrent  processes running calculate_cost on one ledger file.  *)
(*   SpecLedgerFile  the same processes finding any content in the file.   *)
(*   SpecLogger    the RobotCustomLogger singleton.                        *)
(*   SpecFactory   LLMClientFactory: register_client and create_client.    *)
(*   SpecAdapter   create_chat_completion of the provider adapters.        *)
(*   SpecParse     DeviceConnector.parse_ui.                               *)
(*   SpecVision    OmniParserOrchestrator.find_element.                    *)
(*   SpecBbox      OmniParserOrchestrator.bbox_to_pixels.                  *)
(*   SpecDetector  OmniParser.parse_screenshot, the standalone detector.   *)
(*   SpecPrompt    the candidates of one Do: collected, shown, resolved.   *)
(*                                                                         *)
(* Python values are modelled as follows: a dict is a record whose DOMAIN  *)
(* is the set of keys present (the empty dict is << >>), a list is a       *)
(* sequence, an Optional value is << >> (None) or <<v>>.                   *)
(***************************************************************************)
EXTENDS Integers, Sequences, FiniteSets, TLC

\* ------------------------------------------------------------------ bounds
MaxCandidates == 2      \* longest candidate list returned by a UI capture
MaxToolCalls == 2       \* longest tool_calls list in a model reply
MaxCalls == 3           \* calculate_cost calls made in one run
MaxProcCalls == 2       \* calculate_cost calls made by the processes together
MaxLogCalls == 3        \* _log calls made in one run
MaxRegistrations == 2   \* register_client calls made in one run
MaxChildren == 2        \* most children of a node of a UI tree
MaxLines == 2           \* most lines of a detection text
MaxBboxLen == 5         \* most values of a bbox
MaxQualifying == 32     \* most clickable nodes on a screen

\* ------------------------------------------------------------ Python values
EmptyDict == << >>
NoneV == << >>
Some(v) == <<v>>

\* dict.get(key): None when the key is absent
Get(d, k) == IF k \in DOMAIN d THEN Some(d[k]) ELSE NoneV

\* dict.get(key, default)
GetOr(d, k, default) == IF k \in DOMAIN d THEN d[k] ELSE default

\* str(x) of an Optional[int] inside an f-string
StrOptInt(o) == IF o = NoneV THEN "None" ELSE ToString(o[1])

\* sub in s, for strings
Contains(s, sub) ==
    \E i \in 1..(Len(s) - Len(sub) + 1) : SubSeq(s, i, i + Len(sub) - 1) = sub

\* str.lower() and the order of sorted() on ASCII letters
UpperCase == "ABCDEFGHIJKLMNOPQRSTUVWXYZ"
LowerCase == "abcdefghijklmnopqrstuvwxyz"

LowerChar(c) ==
    IF \E i \in 1..Len(UpperCase) : SubSeq(UpperCase, i, i) = c
    THEN LET i == CHOOSE j \in 1..Len(UpperCase) : SubSeq(UpperCase, j, j) = c
         IN SubSeq(LowerCase, i, i)
    ELSE c

RECURSIVE Lower(_)
Lower(str) ==
    IF str = "" THEN ""
    ELSE LowerChar(SubSeq(str, 1, 1)) \o Lower(SubSeq(str, 2, Len(str)))

\* the code point order of two characters among the ASCII letters
CharOrd(c) ==
    LET all == UpperCase \o LowerCase
    IN CHOOSE i \in 1..Len(all) : SubSeq(all, i, i) = c

RECURSIVE StrLess(_, _)
StrLess(a, b) ==
    IF b = "" THEN FALSE
    ELSE IF a = "" THEN TRUE
    ELSE LET x == SubSeq(a, 1, 1)
             y == SubSeq(b, 1, 1)
         IN IF x = y THEN StrLess(SubSeq(a, 2, Len(a)), SubSeq(b, 2, Len(b)))
            ELSE CharOrd(x) < CharOrd(y)

\* sorted(names)
RECURSIVE SortedStrings(_)
SortedStrings(names) ==
    IF names = {} THEN << >>
    ELSE LET first == CHOOSE n \in names : \A m \in names \ {n} : StrLess(n, m)
         IN <<first>> \o SortedStrings(names \ {first})

\* sep.join(strs)
RECURSIVE JoinWith(_, _)
JoinWith(sep, strs) ==
    IF strs = << >> THEN ""
    ELSE IF Len(strs) = 1 THEN strs[1]
    ELSE strs[1] \o sep \o JoinWith(sep, Tail(strs))

NoOutcome == [type |-> "none", msg |-> ""]
Returned == [type |-> "returned", msg |-> ""]
Raised(t, m) == [type |-> t, msg |-> m]

\* --------------------------------------------------------------- variables
VARIABLES
    op,               \* keyword the host runner is executing, or "idle"
    pc,               \* position inside the keyword
    instruction,      \* the keyword's argument
    llm_calls,        \* requests sent through AiConnector by this keyword
    result,           \* do()/visual_check(): local result, << >> until assigned
    outcome,          \* how the current call ended
    ui_candidates,    \* do(): local ui_candidates
    ui_captures,      \* number of collect_ui_candidates calls of this keyword
    rf_locator,       \* _execute_do_from_tool_calls: local rf_locator
    dispatched,       \* BuiltIn().run_keyword calls issued by this keyword
    success_log,      \* keywords logged "SUCCESS: ..." by _run_rf_keyword
    runner_log,       \* every line _run_rf_keyword logged, in order
    screenshot_base64,  \* visual_check(): local screenshot_base64, << >> until assigned
    rf_log,           \* HTML entries this keyword wrote to the host run's log
    IMGBB_API_KEY,    \* Config.IMGBB_API_KEY
    FREEIMAGEHOST_API_KEY,  \* Config.FREEIMAGEHOST_API_KEY
    service,          \* the service the ImageUploader was constructed with
    uploader,         \* ImageUploader.uploader
    base64_data,      \* argument of the current upload_from_base64 call
    provider_result,  \* what self.uploader.upload_from_base64 did in that call
    image_url,        \* what upload_from_base64 returned, << >> until it did
    warnings,         \* warnings ImageUploader logged during the current call
    cost_file,        \* content of TokenHelper._COST_FILE
    th_instance,      \* TokenHelper._instance: 0 for None, else the object's number
    th_initialized,   \* TokenHelper._initialized
    th_model_name,    \* the singleton's model_name
    th_reading,       \* the totals the last construction read and logged
    th_pc,            \* position inside calculate_cost
    th_call,          \* calculate_cost: its arguments and total_cost
    th_old_data,      \* calculate_cost: local old_data
    th_returned,      \* total_cost values calculate_cost has returned, summed
    th_tokens,        \* prompt_tokens + completion_tokens of those calls, summed
    th_calls,         \* number of calculate_cost calls made
    th_objects,       \* TokenHelper objects allocated by super().__new__
    th_arg,           \* model_name argument of the last construction
    th_first_arg,     \* model_name argument of the first construction
    th_result,        \* the object the last construction returned
    th_encoding,      \* the singleton's encoding
    pr_pc,            \* per process: position inside its ledger operation
    pr_op,            \* per process: the TokenHelper method it is running
    pr_call,          \* per process: calculate_cost's arguments and costs
    pr_old_data,      \* per process: what its _load_costs returned
    pr_outcome,       \* per process: how its last operation ended
    lock_sh,          \* processes holding LOCK_SH on _COST_FILE
    lock_ex,          \* processes holding LOCK_EX on _COST_FILE
    pr_calls,         \* calculate_cost calls started by all processes
    pr_tokens,        \* prompt_tokens + completion_tokens of the calls that returned
    lg_env,           \* what _resolve_log_path finds: OUTPUT_DIR, CI_LOG_DIR, writable dirs
    lg_instance,      \* RobotCustomLogger._instance: 0 for None, else the object's number
    lg_objects,       \* RobotCustomLogger objects allocated
    lg_initialized,   \* the instance's _initialized
    lg_log_path,      \* the instance's _log_path
    lg_handler,       \* the instance's _handler: << >> or <<path of the open file>>
    lg_handlers,      \* handlers attached to logging.getLogger("CustomLogger")
    lg_calls,         \* _log calls made
    lg_opened_at,     \* the _log call during which the handler was opened, 0 if none
    lg_first_path,    \* the path the first open resolved
    lg_line,          \* the last line written: file, level name, text
    fc_registry,      \* LLMClientFactory._registry
    fc_history,       \* the register_client calls made, in order
    fc_call,          \* arguments of the create_client call just made, if any
    fc_invoked,       \* the factory call that create_client made, << >> if none
    fc_outcome,       \* how that create_client ended
    ad_call,          \* the create_chat_completion call just made: provider and arguments
    ad_requests,      \* requests that call issued to the provider's API
    ad_errors,        \* error lines that call logged
    ad_outcome,       \* how that call ended
    pu_call,          \* the parse_ui call just made: ui_xml and max_items
    pu_result,        \* what that call returned, << >> before any call
    fe_pc,            \* where find_element stands: idle, detect, filter, select, done
    fe_call,          \* arguments of the find_element call in progress
    fe_detected,      \* what parse_image returned, << >> before it returns
    fe_elements,      \* elements_data of step 2, << >> before step 2
    fe_reply,         \* how the selector's LLM request ended, << >> if none was made
    fe_trace,         \* the calls find_element and the selector made, in order
    fe_logged,        \* error and warning lines logged during the call
    fe_result,        \* the dict find_element returned, << >> for None
    fe_outcome,       \* how find_element ended
    bb_call,          \* arguments of the bbox_to_pixels call just made
    bb_result,        \* the tuple it returned, << >> if none
    bb_outcome,       \* how that call ended
    ps_pc,            \* where parse_screenshot stands: idle, predict, done
    ps_image,         \* the image argument of the call in progress
    ps_image_input,   \* the path given to handle_file, << >> before that
    ps_files,         \* the temporary files that exist
    ps_events,        \* file operations and requests of the call, in order
    ps_result,        \* the list parse_screenshot returned, << >> if none
    ps_outcome,       \* how parse_screenshot ended
    pm_pc,            \* where the Do call stands: idle, asked, resolved
    pm_candidates,    \* what collect_ui_candidates returned
    pm_rendered,      \* what _render_ui_candidates wrote, << >> before it
    pm_index,         \* the element_index of the reply, << >> before the reply
    pm_resolved,      \* the candidate the step runner took for it, << >> if none
    pm_outcome        \* how the resolution ended

kwVars == <<op, pc, instruction, llm_calls, result, outcome>>
doLocals == <<ui_candidates, ui_captures, rf_locator, dispatched, success_log, runner_log>>
vcLocals == <<screenshot_base64, rf_log>>
configVars == <<IMGBB_API_KEY, FREEIMAGEHOST_API_KEY, service, uploader>>
uploadVars == <<base64_data, provider_result, image_url, warnings>>

singletonVars == <<th_objects, th_arg, th_first_arg, th_result, th_encoding>>

costVars == <<cost_file, th_instance, th_initialized, th_model_name, th_reading, th_pc,
              th_call, th_old_data, th_returned, th_tokens, th_calls, singletonVars>>

thVars == <<th_instance, th_initialized, th_model_name, th_reading, th_pc,
            th_call, th_old_data, th_returned, th_tokens, th_calls, singletonVars>>

ledgerVars == <<pr_pc, pr_op, pr_call, pr_old_data, pr_outcome, lock_sh, lock_ex,
                pr_calls, pr_tokens>>

loggerVars == <<lg_env, lg_instance, lg_objects, lg_initialized, lg_log_path, lg_handler,
                lg_handlers, lg_calls, lg_opened_at, lg_first_path, lg_line>>

\* state of the supporting services, which the keyword flows leave alone
factoryVars == <<fc_registry, fc_history, fc_call, fc_invoked, fc_outcome>>

adapterVars == <<ad_call, ad_requests, ad_errors, ad_outcome>>

parseVars == <<pu_call, pu_result>>

visionVars == <<fe_pc, fe_call, fe_detected, fe_elements, fe_reply, fe_trace, fe_logged,
               fe_result, fe_outcome>>

bboxVars == <<bb_call, bb_result, bb_outcome>>

detectorVars == <<ps_pc, ps_image, ps_image_input, ps_files, ps_events, ps_result, ps_outcome>>

promptVars == <<pm_pc, pm_candidates, pm_rendered, pm_index, pm_resolved, pm_outcome>>

serviceVars == <<costVars, ledgerVars, loggerVars, factoryVars, adapterVars, parseVars, visionVars, bboxVars, detectorVars, promptVars>>

\* state of the keyword flows and of the uploader
keywordVars == <<kwVars, doLocals, vcLocals, configVars, uploadVars>>

\* what the single-caller accountant actions leave alone
restOfCost == <<keywordVars, ledgerVars, loggerVars, factoryVars, adapterVars, parseVars, visionVars, bboxVars, detectorVars, promptVars>>

\* what the ledger processes leave alone
restOfLedger == <<keywordVars, thVars, loggerVars, factoryVars, adapterVars, parseVars, visionVars, bboxVars, detectorVars, promptVars>>

\* what the logger leaves alone
restOfLogger == <<keywordVars, costVars, ledgerVars, factoryVars, adapterVars, parseVars, visionVars, bboxVars, detectorVars, promptVars>>

\* what the client factory leaves alone
restOfFactory == <<keywordVars, costVars, ledgerVars, loggerVars, adapterVars, parseVars, visionVars, bboxVars, detectorVars, promptVars>>

\* what the provider adapters leave alone
restOfAdapter == <<keywordVars, costVars, ledgerVars, loggerVars, factoryVars, parseVars, visionVars, bboxVars, detectorVars, promptVars>>

\* what parse_ui leaves alone
restOfParse == <<keywordVars, costVars, ledgerVars, loggerVars, factoryVars, adapterVars, visionVars, bboxVars, detectorVars, promptVars>>

\* everything but the vision pipeline
restOfVision == <<keywordVars, costVars, ledgerVars, loggerVars, factoryVars, adapterVars, parseVars, bboxVars, detectorVars, promptVars>>

\* everything but bbox_to_pixels
restOfBbox == <<keywordVars, costVars, ledgerVars, loggerVars, factoryVars, adapterVars, parseVars, visionVars, detectorVars, promptVars>>

\* everything but the standalone OmniParser
restOfDetector == <<keywordVars, costVars, ledgerVars, loggerVars, factoryVars, adapterVars, parseVars, visionVars, bboxVars, promptVars>>

\* everything but the candidates of the prompt
restOfPrompt == <<keywordVars, costVars, ledgerVars, loggerVars, factoryVars, adapterVars, parseVars, visionVars, bboxVars, detectorVars>>

vars == <<keywordVars, serviceVars>>

\* ------------------------------------------------- device / UI abstraction
Element(text, rid, desc, cls) ==
    [text |-> text, resource_id |-> rid, content_desc |-> desc, class_name |-> cls]

\* clickable and enabled nodes a screen may hold
Elements ==
    { Element("OK", "btn_ok", "", "Button"),
      Element("", "", "Menu", "ImageView"),
      Element("", "", "", "View") }

sort_key(item) ==
    (IF item.text # "" THEN 3 ELSE 0)
  + (IF item.content_desc # "" THEN 2 ELSE 0)
  + (IF item.resource_id # "" THEN 1 ELSE 0)

\* parse_ui returns its candidates sorted by descending score
CandidateLists ==
    { s \in UNION { [1..n -> Elements] : n \in 0..MaxCandidates } :
        \A i \in 1..(Len(s) - 1) : sort_key(s[i]) >= sort_key(s[i + 1]) }

BuildLocatorFromElement(element) ==
    IF element.resource_id # "" THEN "id=" \o element.resource_id
    ELSE IF element.content_desc # "" THEN "accessibility_id=" \o element.content_desc
    ELSE IF element.text # "" THEN "//*[@text='" \o element.text \o "']"
    ELSE "class=" \o element.class_name

\* ------------------------------------------------------------ model replies
Instructions == {"accept the cookies", "type: hello"}

ToolCall(name, arguments) == [function |-> [name |-> name, arguments |-> arguments]]

Indices == 0..(MaxCandidates + 1)
Texts == {"", "hello"}

TapArguments == {EmptyDict} \cup [element_index : Indices]

InputArguments ==
    {EmptyDict} \cup [element_index : Indices] \cup [text : Texts]
        \cup [element_index : Indices, text : Texts]

ToolCalls ==
    { ToolCall("tap_element", a) : a \in TapArguments }
        \cup { ToolCall("input_text", a) : a \in InputArguments }
        \cup { ToolCall("scroll_down", EmptyDict), ToolCall("long_press", EmptyDict) }

\* the calls that follow the first one
TailCalls ==
    { ToolCall("tap_element", [element_index |-> 1]),
      ToolCall("tap_element", [element_index |-> 0]),
      ToolCall("input_text", [element_index |-> 1, text |-> "hello"]),
      ToolCall("input_text", [element_index |-> 1]),
      ToolCall("scroll_down", EmptyDict),
      ToolCall("long_press", EmptyDict) }

ToolCallLists ==
    {<< >>} \cup
    { <<first>> \o tail :
        first \in ToolCalls,
        tail \in UNION { [1..n -> TailCalls] : n \in 0..(MaxToolCalls - 1) } }

\* the dict handed to the step runner: with or without a tool_calls key
DoResults == {EmptyDict} \cup { [tool_calls |-> s] : s \in ToolCallLists }

\* the content of a reply: text that holds a JSON object, or text that holds none
JsonContent(object) == [kind |-> "json", object |-> object]
NoJsonContent == [kind |-> "text", object |-> EmptyDict]

\* what the adapter's format_response returns for the Do request: a reply
\* whose content is a JSON object, a reply that calls tools (its content is
\* empty), a reply of plain text, or {} for a response without choices
FormattedResponses ==
    { [content |-> JsonContent(r)] : r \in DoResults }
        \cup { [content |-> NoJsonContent, tool_calls |-> s] : s \in ToolCallLists \ {<< >>} }
        \cup { [content |-> NoJsonContent], EmptyDict }

\* extract_json_safely: the JSON object found in the text, {} if there is none
ExtractJsonSafely(content) ==
    IF content.kind = "json" THEN content.object ELSE EmptyDict

\* UnifiedLLMFacade.send_ai_request_and_return_response, after the request
SendAiRequestAndReturnResponse(formatted) ==
    ExtractJsonSafely(GetOr(formatted, "content", JsonContent(EmptyDict)))

\* ---------------------------------------------------------- step runner: do
InvalidElementIndex(element_index, n) ==
    \/ element_index = NoneV
    \/ element_index[1] < 1
    \/ element_index[1] > n

InvalidIndexMessage(element_index, n) ==
    "Invalid element_index: " \o StrOptInt(element_index)
        \o ". Must be 1-" \o ToString(n)

\* ui_candidates[element_index]: the index used as if it were 0-based
ElementAtZeroBased(candidates, element_index) ==
    candidates[IF element_index + 1 <= Len(candidates) THEN element_index + 1 ELSE 1]

\* ui_candidates[element_index - 1] of a 0-based list
ElementAt(candidates, element_index) == candidates[(element_index - 1) + 1]

RfCall(keyword_name, args) == [keyword |-> keyword_name, args |-> args]

\* text is None: the empty string passes
FalsyNoneOnly(text) == text = NoneV

\* not text: None or the empty string
Falsy(text) == text = NoneV \/ text[1] = ""


\* tool_call = tool_calls[-1]
LastToolCall(tool_calls) == tool_calls[Len(tool_calls)]

\* tool_call = tool_calls[0]
FirstToolCall(tool_calls) == tool_calls[1]

\* -------------------------------------------------------------- image upload
Keys == {"", "imgkey"}
Services == {"auto", "imgbb", "freeimagehost", "none"}
Screenshots == {"QUJD", "iVBORw0K"}

\* what the image host may answer to one upload request
Responses == {"display_url", "no_display_url", "RequestException", "ValueError", "Exception"}

HostedUrl(data) == "https://i.ibb.co/" \o data \o "/screenshot.png"

\* FreeImageHost tried first
SelectUploaderFreeFirst(svc, imgbb_key, freeimagehost_key) ==
    IF svc = "freeimagehost" \/ (svc = "auto" /\ freeimagehost_key # "")
    THEN "FreeImageHostUploader"
    ELSE IF svc = "imgbb" \/ (svc = "auto" /\ imgbb_key # "") THEN "ImgBBUploader"
    ELSE "None"

\* ImageUploader._select_uploader
SelectUploader(svc, imgbb_key, freeimagehost_key) ==
    IF svc = "imgbb" \/ (svc = "auto" /\ imgbb_key # "") THEN "ImgBBUploader"
    ELSE IF svc = "freeimagehost" \/ (svc = "auto" /\ freeimagehost_key # "")
         THEN "FreeImageHostUploader"
    ELSE "None"

NotCalled == [called |-> FALSE, raised |-> FALSE, value |-> NoneV]
ProviderReturned(v) == [called |-> TRUE, raised |-> FALSE, value |-> v]
ProviderRaised == [called |-> TRUE, raised |-> TRUE, value |-> NoneV]

\* ImgBBUploader._make_request: every failure is logged and becomes None
MakeRequest(data, response) ==
    IF response = "display_url" THEN ProviderReturned(Some(HostedUrl(data)))
    ELSE ProviderReturned(NoneV)

\* FreeImageHostUploader.upload_from_base64: url | no value, or it raises
FreeImageHostUpload(data, response) ==
    IF response = "display_url" THEN ProviderReturned(Some(HostedUrl(data)))
    ELSE IF response = "no_display_url" THEN ProviderReturned(NoneV)
    ELSE ProviderRaised

\* self.uploader.upload_from_base64(base64_data)
ProviderUpload(upl, data, response) ==
    IF upl = "ImgBBUploader" THEN MakeRequest(data, response)
    ELSE FreeImageHostUpload(data, response)

\* the data URI written as embed_image_to_log writes it
DataUriSpaced(data) == "data:image/png;base64, " \o data

\* f"data:image/png;base64,{base64_data}"
DataUri(data) == "data:image/png;base64," \o data

FacadeReturn(v, w) == [raised |-> FALSE, ret |-> v, warnings |-> w, provider |-> NotCalled]

\* ImageUploader.upload_from_base64
UploadFromBase64(upl, data, response) ==
    IF upl = "None"
    THEN FacadeReturn(Some(DataUri(data)),
            <<"Fallback: returning the image in base64 (no provider configured)">>)
    ELSE LET r == ProviderUpload(upl, data, response)
         IN [ IF r.raised
              THEN FacadeReturn(Some(DataUri(data)),
                      <<"Fallback: returning the image in base64 (error: " \o response \o ")">>)
              ELSE IF r.value = NoneV
              THEN FacadeReturn(Some(DataUri(data)),
                      <<"Fallback: returning the image in base64 (upload failed)">>)
              ELSE FacadeReturn(r.value, << >>)
            EXCEPT !.provider = r ]

\* ------------------------------------------------------- keyword entry/exit
Fail(exc) ==
    /\ pc' = "failed"
    /\ outcome' = exc

\* AgentKeywords.do -> AgentStepRunner.do
Do(instr) ==
    /\ op = "idle"
    /\ op' = "do"
    /\ pc' = "collect_ui_candidates"
    /\ instruction' = instr
    /\ UNCHANGED <<llm_calls, result, outcome, doLocals, vcLocals, configVars, uploadVars>>
    /\ UNCHANGED serviceVars

\* AgentKeywords.check -> AgentStepRunner.visual_check
VisualCheck(instr) ==
    /\ op = "idle"
    /\ op' = "visual_check"
    /\ pc' = "get_screenshot_base64"
    /\ instruction' = instr
    /\ UNCHANGED <<llm_calls, result, outcome, doLocals, vcLocals, configVars, uploadVars>>
    /\ UNCHANGED serviceVars

\* a placeholder that returns instead of raising
AutonumousNoOp(instr) ==
    /\ op = "idle"
    /\ op' = "autonumous"
    /\ instruction' = instr
    /\ pc' = "done"
    /\ outcome' = Returned
    /\ UNCHANGED <<llm_calls, result, doLocals, vcLocals, configVars, uploadVars>>
    /\ UNCHANGED serviceVars

\* AgentKeywords.autonumous
Autonumous(instr) ==
    /\ op = "idle"
    /\ op' = "autonumous"
    /\ instruction' = instr
    /\ Fail(Raised("NotImplementedError", "Agent.Autonumous is not implemented yet"))
    /\ UNCHANGED <<llm_calls, result, doLocals, vcLocals, configVars, uploadVars>>
    /\ UNCHANGED serviceVars

\* the keyword returns or raises to the host runner; its locals are gone
Return ==
    /\ op # "idle" /\ pc \in {"done", "failed"}
    /\ op' = "idle"
    /\ pc' = "idle"
    /\ instruction' = ""
    /\ llm_calls' = << >>
    /\ result' = NoneV
    /\ outcome' = NoOutcome
    /\ ui_candidates' = << >>
    /\ ui_captures' = 0
    /\ rf_locator' = ""
    /\ dispatched' = << >>
    /\ success_log' = << >>
    /\ runner_log' = << >>
    /\ screenshot_base64' = NoneV
    /\ rf_log' = << >>
    /\ base64_data' = ""
    /\ provider_result' = NotCalled
    /\ image_url' = NoneV
    /\ warnings' = << >>
    /\ UNCHANGED configVars
    /\ UNCHANGED serviceVars

\* ---------------------------------------------------------- step runner: do
\* do(): ui_candidates = self.platform.collect_ui_candidates()
CollectUiCandidates ==
    /\ op = "do" /\ pc = "collect_ui_candidates"
    /\ \/ \E c \in CandidateLists :
            /\ ui_candidates' = c
            /\ ui_captures' = ui_captures + 1
            /\ pc' = "ask_ai_do"
            /\ UNCHANGED outcome
       \/ /\ Fail(Raised("WebDriverException", "page_source failed"))
          /\ UNCHANGED <<ui_candidates, ui_captures>>
    /\ UNCHANGED <<op, instruction, llm_calls, result, rf_locator, dispatched, success_log,
                   runner_log,
                   vcLocals, configVars, uploadVars>>
    /\ UNCHANGED serviceVars

\* the request of ask_ai_do at the default temperature of _run
DoRequestDefaultTemperature(ui_elements, formatted) ==
    [flow |-> "do", temperature |-> 10, ui_elements |-> ui_elements,
     response_format |-> "json_object", tools |-> NoneV, formatted |-> formatted]

\* the request do() makes through ask_ai_do, _run and the facade, with the
\* formatted response it got (<< >> if the request raised); temperature in tenths
DoRequest(ui_elements, formatted) ==
    [flow |-> "do", temperature |-> 0, ui_elements |-> ui_elements,
     response_format |-> "json_object", tools |-> NoneV, formatted |-> formatted]

\* do(): result = self.agent.ask_ai_do(..., temperature=0)
AskAiDo ==
    /\ op = "do" /\ pc = "ask_ai_do"
    /\ \/ \E f \in FormattedResponses :
            /\ llm_calls' = Append(llm_calls, DoRequest(ui_candidates, Some(f)))
            /\ result' = Some(SendAiRequestAndReturnResponse(f))
            /\ pc' = "execute_do"
            /\ UNCHANGED outcome
       \/ /\ llm_calls' = Append(llm_calls, DoRequest(ui_candidates, NoneV))
          /\ Fail(Raised("APIError", "provider call failed"))
          /\ UNCHANGED result
    /\ UNCHANGED <<op, instruction, doLocals, vcLocals, configVars, uploadVars>>
    /\ UNCHANGED serviceVars

Resolution(p, o, locator) == [pc |-> p, outcome |-> o, rf_locator |-> locator]

Failure(exc) == Resolution("failed", exc, "")

\* _execute_do_from_tool_calls: the branch taken for tool_call
ResolveToolCall(tool_call, candidates) ==
    LET function_name == tool_call.function.name
        arguments == tool_call.function.arguments
        element_index == Get(arguments, "element_index")
        text == Get(arguments, "text")
        n == Len(candidates)
    IN CASE function_name = "tap_element" ->
              IF InvalidElementIndex(element_index, n)
              THEN Failure(Raised("AssertionError", InvalidIndexMessage(element_index, n)))
              ELSE Resolution("click_element", NoOutcome,
                      BuildLocatorFromElement(ElementAt(candidates, element_index[1])))
         [] function_name = "input_text" ->
              IF InvalidElementIndex(element_index, n)
              THEN Failure(Raised("AssertionError", InvalidIndexMessage(element_index, n)))
              ELSE IF Falsy(text)
              THEN Failure(Raised("AssertionError", "'input_text' requires text argument"))
              ELSE Resolution("clear_text", NoOutcome,
                      BuildLocatorFromElement(ElementAt(candidates, element_index[1])))
         [] function_name = "scroll_down" -> Resolution("swipe", NoOutcome, "")
         [] OTHER ->
              Failure(Raised("AssertionError", "Unknown tool call: " \o function_name))

\* an empty reply logged and then ignored
ResolveDoIgnoresEmpty(res, candidates) ==
    LET tool_calls == GetOr(res, "tool_calls", << >>)
    IN IF tool_calls = << >>
       THEN Resolution("done", Returned, "")
       ELSE ResolveToolCall(FirstToolCall(tool_calls), candidates)

\* _execute_do_from_tool_calls: no tool calls, or the first tool call
ResolveDo(res, candidates) ==
    LET tool_calls == GetOr(res, "tool_calls", << >>)
    IN IF tool_calls = << >>
       THEN Failure(Raised("AssertionError", "AI did not return any tool calls"))
       ELSE ResolveToolCall(FirstToolCall(tool_calls), candidates)

\* _execute_do_from_tool_calls, up to its first dispatch
ExecuteDoFromToolCalls ==
    /\ op = "do" /\ pc = "execute_do"
    /\ LET r == ResolveDo(result[1], ui_candidates)
       IN /\ pc' = r.pc
          /\ outcome' = r.outcome
          /\ rf_locator' = r.rf_locator
    /\ UNCHANGED <<op, instruction, llm_calls, result, ui_candidates, ui_captures, dispatched,
                   success_log, runner_log, vcLocals, configVars, uploadVars>>
    /\ UNCHANGED serviceVars

\* the run_keyword call _execute_do_from_tool_calls makes at this position
PendingRfCall ==
    CASE pc = "click_element" -> RfCall("Click Element", <<rf_locator>>)
      [] pc = "clear_text" -> RfCall("Clear Text", <<rf_locator>>)
      [] pc = "input_text" ->
            RfCall("Input Text",
                <<rf_locator, FirstToolCall(result[1].tool_calls).function.arguments.text>>)
      [] pc = "swipe" -> RfCall("Swipe", <<"50", "80", "50", "20", "500">>)

\* where _execute_do_from_tool_calls continues once that call has returned
AfterRfCall ==
    CASE pc = "click_element" -> "done"
      [] pc = "clear_text" -> "input_text"
      [] pc = "input_text" -> "done"
      [] pc = "swipe" -> "done"

LogLine(level, event, keyword_name) ==
    [level |-> level, event |-> event, keyword |-> keyword_name]

\* the two lines logged before run_keyword
LoggedBefore(keyword_name) ==
    <<LogLine("debug", "EXECUTING", keyword_name), LogLine("info", "RF", keyword_name)>>

\* except Exception as exc: raise
LoggedOnRaise(keyword_name) == << >>

\* _run_rf_keyword: one dispatch; what the keyword raises is re-raised
RunRfKeyword ==
    /\ op = "do" /\ pc \in {"click_element", "clear_text", "input_text", "swipe"}
    /\ dispatched' = Append(dispatched, PendingRfCall)
    /\ \/ /\ success_log' = Append(success_log, PendingRfCall.keyword)
          /\ runner_log' = runner_log \o LoggedBefore(PendingRfCall.keyword)
                             \o <<LogLine("info", "SUCCESS", PendingRfCall.keyword)>>
          /\ pc' = AfterRfCall
          /\ outcome' = IF AfterRfCall = "done" THEN Returned ELSE outcome
       \/ /\ Fail(Raised("RobotKeywordError", PendingRfCall.keyword))
          /\ runner_log' = runner_log \o LoggedBefore(PendingRfCall.keyword)
                             \o LoggedOnRaise(PendingRfCall.keyword)
          /\ UNCHANGED success_log
    /\ UNCHANGED <<op, instruction, llm_calls, result, ui_candidates, ui_captures, rf_locator,
                   vcLocals, configVars, uploadVars>>
    /\ UNCHANGED serviceVars

\* ------------------------------------------------ step runner: visual_check
MaxIssues == 4          \* longest issues list in a verification reply

IssuePool == <<"wrong color", "wrong position", "missing tagline", "extra banner",
               "slow animation">>

IssueLists == { SubSeq(IssuePool, 1, k) : k \in 0..MaxIssues }

\* the arguments dict of a verify_visual_match call: only the keys present
VisualArguments ==
    { [ k \in (IF vr = NoneV THEN {} ELSE {"verification_result"})
            \cup (IF cs = NoneV THEN {} ELSE {"confidence_score"})
            \cup (IF an = NoneV THEN {} ELSE {"analysis"})
            \cup (IF is = NoneV THEN {} ELSE {"issues"})
          |-> CASE k = "verification_result" -> vr[1]
                [] k = "confidence_score" -> cs[1]
                [] k = "analysis" -> an[1]
                [] k = "issues" -> is[1] ] :
        vr \in {NoneV, Some(TRUE), Some(FALSE)},
        cs \in {NoneV, Some(90)},
        an \in {NoneV, Some("Logo absent")},
        is \in {NoneV} \cup { Some(l) : l \in IssueLists } }

VisualResults ==
    {EmptyDict, [tool_calls |-> << >>],
     [tool_calls |-> <<ToolCall("tap_element", [element_index |-> 1])>>]}
        \cup { [tool_calls |-> <<ToolCall("verify_visual_match", a)>>] : a \in VisualArguments }

RECURSIVE Join(_, _)
\* sep.join(strings)
Join(strings, sep) ==
    IF strings = << >> THEN ""
    ELSE IF Len(strings) = 1 THEN strings[1]
    ELSE strings[1] \o sep \o Join(Tail(strings), sep)

\* issues, all of them
AllIssues(issues) == issues

\* issues[:3]
FirstThree(issues) == SubSeq(issues, 1, IF Len(issues) < 3 THEN Len(issues) ELSE 3)

\* bool(x) of an Optional[bool]
Truthy(x) == x # NoneV /\ x[1] = TRUE

\* message if message else ''
StrOptEmpty(o) == IF o = NoneV THEN "" ELSE o[1]

\* str(x) of an Optional[str] inside an f-string
StrOpt(o) == IF o = NoneV THEN "None" ELSE o[1]

\* the message of the AssertionError of a failed verification
ErrorMsg(analysis, issues) ==
    "Visual verification failed. Analysis: " \o StrOpt(analysis)
        \o (IF issues # << >> THEN " Issues: " \o Join(FirstThree(issues), ", ") ELSE "")

\* DeviceConnector.embed_image_to_log: the HTML fragment logged
EmbedHtml(base64_screenshot, width, message) ==
    StrOptEmpty(message) \o "</td></tr><tr><td colspan=\"3\"><img src=\"data:image/png;base64, "
        \o base64_screenshot \o "\" width=\"" \o ToString(width) \o "\"></td></tr>"

\* parameters of AiConnector.ask_ai_visual_check, and the keywords
\* visual_check() passes to it
AskAiVisualCheckParameters == {"instruction", "image_base_or_url", "temperature"}
VisualCheckCallKeywords == {"instruction", "image_url", "temperature"}

\* visual_check(): screenshot_base64 = self.platform.get_screenshot_base64()
GetScreenshotBase64 ==
    /\ op = "visual_check" /\ pc = "get_screenshot_base64"
    /\ \/ \E s \in Screenshots :
            /\ screenshot_base64' = Some(s)
            /\ pc' = "embed_image_to_log"
            /\ UNCHANGED outcome
       \/ /\ Fail(Raised("WebDriverException", "screenshot failed"))
          /\ UNCHANGED screenshot_base64
    /\ UNCHANGED <<op, instruction, llm_calls, result, rf_log, doLocals, configVars, uploadVars>>
    /\ UNCHANGED serviceVars

\* the embed left out
EmbedImageToLogSkipped ==
    /\ op = "visual_check" /\ pc = "embed_image_to_log"
    /\ pc' = "upload_from_base64"
    /\ UNCHANGED <<op, instruction, llm_calls, result, outcome, vcLocals,
                   doLocals, configVars, uploadVars>>
    /\ UNCHANGED serviceVars

\* visual_check(): self.platform.embed_image_to_log(screenshot_base64)
EmbedImageToLog ==
    /\ op = "visual_check" /\ pc = "embed_image_to_log"
    /\ rf_log' = Append(rf_log, EmbedHtml(screenshot_base64[1], 400, NoneV))
    /\ pc' = "upload_from_base64"
    /\ UNCHANGED <<op, instruction, llm_calls, result, outcome, screenshot_base64,
                   doLocals, configVars, uploadVars>>
    /\ UNCHANGED serviceVars

\* visual_check(): image_url = self.image_uploader.upload_from_base64(...)
UploadScreenshot ==
    /\ op = "visual_check" /\ pc = "upload_from_base64"
    /\ \E response \in Responses :
          LET r == UploadFromBase64(uploader, screenshot_base64[1], response)
          IN /\ base64_data' = screenshot_base64[1]
             /\ provider_result' = r.provider
             /\ warnings' = r.warnings
             /\ IF r.raised
                THEN /\ Fail(Raised("Exception", "upload failed"))
                     /\ UNCHANGED image_url
                ELSE /\ image_url' = r.ret
                     /\ pc' = "ask_ai_visual_check"
                     /\ UNCHANGED outcome
    /\ UNCHANGED <<op, instruction, llm_calls, result, vcLocals, doLocals, configVars>>
    /\ UNCHANGED serviceVars

\* visual_check(): result = self.agent.ask_ai_visual_check(instruction=...,
\* image_url=..., temperature=0)
AskAiVisualCheck ==
    /\ op = "visual_check" /\ pc = "ask_ai_visual_check"
    /\ IF VisualCheckCallKeywords \subseteq AskAiVisualCheckParameters
       THEN /\ llm_calls' = Append(llm_calls, [flow |-> "visual_check", temperature |-> 0])
            /\ \/ \E r \in VisualResults :
                    /\ result' = Some(r)
                    /\ pc' = "execute_visual_check"
                    /\ UNCHANGED outcome
               \/ /\ Fail(Raised("APIError", "provider call failed"))
                  /\ UNCHANGED result
       ELSE /\ Fail(Raised("TypeError",
                    "ask_ai_visual_check() got an unexpected keyword argument"))
            /\ UNCHANGED <<llm_calls, result>>
    /\ UNCHANGED <<op, instruction, vcLocals, doLocals, configVars, uploadVars>>
    /\ UNCHANGED serviceVars

\* _execute_visual_check_from_tool_calls: how the call ends
VerifyVisual(res) ==
    LET tool_calls == GetOr(res, "tool_calls", << >>)
    IN IF tool_calls = << >>
       THEN Raised("AssertionError", "AI did not return any tool calls for visual verification")
       ELSE
         LET tool_call == FirstToolCall(tool_calls)
             function_name == tool_call.function.name
             arguments == tool_call.function.arguments
             verification_result == Get(arguments, "verification_result")
             confidence_score == Get(arguments, "confidence_score")
             analysis == Get(arguments, "analysis")
             issues == GetOr(arguments, "issues", << >>)
         IN IF function_name # "verify_visual_match"
            THEN Raised("AssertionError",
                    "Unexpected tool call for visual check: " \o function_name)
            ELSE IF confidence_score = NoneV
            THEN Raised("TypeError", "unsupported format string passed to NoneType.__format__")
            ELSE IF Truthy(verification_result)
            THEN Returned
            ELSE Raised("AssertionError", ErrorMsg(analysis, issues))

\* _execute_visual_check_from_tool_calls
ExecuteVisualCheckFromToolCalls ==
    /\ pc = "execute_visual_check"
    /\ outcome' = VerifyVisual(result[1])
    /\ pc' = IF outcome' = Returned THEN "done" ELSE "failed"
    /\ UNCHANGED <<op, instruction, llm_calls, result, vcLocals, doLocals, configVars, uploadVars>>
    /\ UNCHANGED serviceVars

\* ------------------------------------------------------- token accountant
\* Money is counted in units of 0.00001 USD, the resolution calculate_cost
\* rounds to; prices are units per PriceTokens tokens.
CostDecimals == 5
PriceTokens == 1000

\* TokenHelper.PRICING, the catalog's entry for gpt-4o-mini
\* ({input: 0.00015, output: 0.0006} USD per 1000 tokens)
DefaultPricedModel == "gpt-4o-mini"
PRICING == (DefaultPricedModel :> [input |-> 15, output |-> 60])

ModelNames == {"gpt-4o-mini", "unlisted-model"}
ModelArgs == {NoneV} \cup {Some(m) : m \in ModelNames}
\* token counts whose cost is not halfway between two units
PromptTokens == {180, 1000}
CompletionTokens == {0, 500}

\* round(num / den, CostDecimals) of an amount of num / den units
Round(num, den) ==
    LET q == num \div den
        r == num % den
    IN IF 2 * r < den THEN q
       ELSE IF 2 * r > den THEN q + 1
       ELSE IF q % 2 = 0 THEN q ELSE q + 1

\* the content of _COST_FILE
Absent == [kind |-> "absent"]
JsonObject(members) == [kind |-> "json_object", members |-> members]

\* json.dump({"cost": cost, "tokens": tokens}, f)
JsonDump(cost, tokens) == JsonObject([cost |-> cost, tokens |-> tokens])

ZeroLedger == [cost |-> 0, tokens |-> 0]

\* file contents json.load rejects
Empty == [kind |-> "empty"]
NotJson == [kind |-> "not_json"]
\* a JSON document that is not an object, such as [] or 5
JsonArray == [kind |-> "json_array"]

\* _load_costs: data.get on a value that is not a dict raises AttributeError,
\* which the except clause does not list
LoadCostsRaises(file) == file.kind = "json_array"

\* TokenHelper._load_costs, where it returns
LoadCosts(file) ==
    IF file.kind \in {"absent", "empty", "not_json"}
    THEN ZeroLedger
    ELSE [cost |-> GetOr(file.members, "cost", 0),
          tokens |-> GetOr(file.members, "tokens", 0)]

get_cumulated_cost(file) == LoadCosts(file).cost
get_cumulated_tokens(file) == LoadCosts(file).tokens

\* calculate_cost: the model whose prices are used
PricedModel(model, model_name) ==
    LET m == IF model = NoneV \/ model = Some("") THEN model_name ELSE model[1]
    IN IF m \in DOMAIN PRICING THEN m ELSE DefaultPricedModel

\* calculate_cost: input_cost, output_cost, total_cost
Costs(prompt_tokens, completion_tokens, model, model_name) ==
    LET price == PRICING[PricedModel(model, model_name)]
        input_cost == Round(prompt_tokens * price.input, PriceTokens)
        output_cost == Round(completion_tokens * price.output, PriceTokens)
    IN [input_cost |-> input_cost,
        output_cost |-> output_cost,
        total_cost |-> Round(input_cost + output_cost, 1)]

\* the ledger overwritten with the call's own figures
NewCumulatedOverwrite(old_data, call) ==
    [cost |-> call.costs.total_cost,
     tokens |-> call.prompt_tokens + call.completion_tokens]

\* calculate_cost: new_cumulated_cost, new_cumulated_tokens
NewCumulated(old_data, call) ==
    [cost |-> old_data.cost + call.costs.total_cost,
     tokens |-> old_data.tokens + call.prompt_tokens + call.completion_tokens]

\* the class attributes after import, before any construction
InitTokenHelper ==
    /\ th_instance = 0
    /\ th_objects = 0
    /\ th_arg = ""
    /\ th_first_arg = ""
    /\ th_result = 0
    /\ th_encoding = ""
    /\ th_initialized = FALSE
    /\ th_model_name = ""
    /\ th_reading = NoneV
    /\ th_pc = "idle"
    /\ th_call = EmptyDict
    /\ th_old_data = NoneV
    /\ th_returned = 0
    /\ th_tokens = 0
    /\ th_calls = 0

\* TokenHelper._get_encoding_for_model
GetEncodingForModel(model_name) ==
    IF Contains(model_name, "gpt-4") \/ Contains(model_name, "gpt-3.5")
    THEN "cl100k_base"
    ELSE "p50k_base"

\* __init__ taking the argument of every construction
InitModelNameLastWins(initialized, current, model_name) == model_name

\* __init__: self.model_name after a construction with argument model_name
InitModelName(initialized, current, model_name) ==
    IF initialized THEN current ELSE model_name

\* TokenHelper(model_name): __new__ then __init__
NewTokenHelper(model_name) ==
    /\ th_pc = "idle"
    /\ th_objects' = IF th_instance = 0 THEN th_objects + 1 ELSE th_objects
    /\ th_instance' = IF th_instance = 0 THEN th_objects' ELSE th_instance
    /\ th_result' = th_instance'
    /\ th_arg' = model_name
    /\ th_first_arg' = IF th_objects = 0 THEN model_name ELSE th_first_arg
    /\ th_initialized' = TRUE
    /\ th_model_name' = InitModelName(th_initialized, th_model_name, model_name)
    /\ th_encoding' = IF th_initialized THEN th_encoding
                      ELSE GetEncodingForModel(th_model_name')
    /\ th_reading' = Some([cost |-> get_cumulated_cost(cost_file),
                           tokens |-> get_cumulated_tokens(cost_file)])
    /\ UNCHANGED <<cost_file, th_pc, th_call, th_old_data, th_returned, th_tokens, th_calls>>
    /\ UNCHANGED restOfCost

\* calculate_cost up to and including old_data = self._load_costs()
CalculateCost(prompt_tokens, completion_tokens, model) ==
    /\ th_instance # 0
    /\ th_pc = "idle"
    /\ th_calls < MaxCalls
    /\ th_calls' = th_calls + 1
    /\ th_call' = [prompt_tokens |-> prompt_tokens,
                   completion_tokens |-> completion_tokens,
                   costs |-> Costs(prompt_tokens, completion_tokens, model, th_model_name)]
    /\ th_old_data' = Some(LoadCosts(cost_file))
    /\ th_reading' = NoneV
    /\ th_pc' = "save_costs"
    /\ UNCHANGED <<cost_file, th_instance, th_initialized, th_model_name, th_returned, th_tokens>>
    /\ UNCHANGED <<singletonVars, restOfCost>>

\* calculate_cost from self._save_costs(...) to its return
SaveCosts ==
    /\ th_pc = "save_costs"
    /\ LET new == NewCumulated(th_old_data[1], th_call)
       IN cost_file' = JsonDump(new.cost, new.tokens)
    /\ th_returned' = th_returned + th_call.costs.total_cost
    /\ th_tokens' = th_tokens + th_call.prompt_tokens + th_call.completion_tokens
    /\ th_pc' = "idle"
    /\ UNCHANGED <<th_instance, th_initialized, th_model_name, th_reading, th_call,
                   th_old_data, th_calls>>
    /\ UNCHANGED <<singletonVars, restOfCost>>

\* TokenHelper.reset_accumulation
ResetAccumulation ==
    /\ th_instance # 0
    /\ th_pc = "idle"
    /\ cost_file # JsonDump(0, 0)
    /\ cost_file' = JsonDump(0, 0)
    /\ th_returned' = 0
    /\ th_tokens' = 0
    /\ th_reading' = NoneV
    /\ UNCHANGED <<th_instance, th_initialized, th_model_name, th_pc, th_call,
                   th_old_data, th_calls>>
    /\ UNCHANGED <<singletonVars, restOfCost>>

\* ------------------------------------------------------------------ logger
_default_filename == "custom_logger.log"

\* os.path.join(base_dir, name)
PathJoin(base_dir, name) == base_dir \o "/" \o name

\* the directories _resolve_log_path may look at
TempDir == "/tmp"
CwdLogs == "/cwd/logs"
LogEnvs ==
    [output_dir : {NoneV, Some("/out")},
     ci_log_dir : {NoneV, Some("/ci")},
     writable : SUBSET {"/out", "/ci", CwdLogs, TempDir}]

\* RobotCustomLogger._resolve_log_path
ResolveLogPath(env) ==
    IF env.output_dir # NoneV
    THEN PathJoin(env.output_dir[1], _default_filename)
    ELSE IF env.ci_log_dir # NoneV /\ env.ci_log_dir[1] \in env.writable
    THEN PathJoin(env.ci_log_dir[1], _default_filename)
    ELSE IF CwdLogs \in env.writable
    THEN PathJoin(CwdLogs, _default_filename)
    ELSE PathJoin(TempDir, _default_filename)

\* ensure_handler opening a handler on every call
EnsureHandlerEveryCall(handler, log_path, handlers, env) ==
    LET path == ResolveLogPath(env)
    IN [handler |-> Some(path), log_path |-> Some(path),
        handlers |-> Append(handlers, path), opened |-> TRUE]

\* RobotCustomLogger.ensure_handler: _handler, _log_path and the logger's handlers after it
EnsureHandler(handler, log_path, handlers, env) ==
    IF handler = NoneV
    THEN LET path == ResolveLogPath(env)
         IN [handler |-> Some(path), log_path |-> Some(path),
             handlers |-> Append(handlers, path), opened |-> TRUE]
    ELSE [handler |-> handler, log_path |-> log_path, handlers |-> handlers,
          opened |-> FALSE]

Levels == {"info", "error", "success", "debug", "warning"}

\* the icon of each level, the emoji written as an ASCII name
_icons ==
    [info |-> "(i)", error |-> "(alarm)", success |-> "(check)", debug |-> "(bug)",
     warning |-> "(warn)", separator |-> "--------------------------------",
     brain |-> "(brain)", start |-> "(rocket)"]

\* _log: the level of the standard logger the line is written at
LogLevel(level) == IF level # "success" THEN level ELSE "info"

InitLogger ==
    /\ lg_env \in LogEnvs
    /\ lg_instance = 0
    /\ lg_objects = 0
    /\ lg_initialized = FALSE
    /\ lg_log_path = NoneV
    /\ lg_handler = NoneV
    /\ lg_handlers = << >>
    /\ lg_calls = 0
    /\ lg_opened_at = 0
    /\ lg_first_path = NoneV
    /\ lg_line = NoneV

\* the output directory, the environment or the file system changes
ChangeLogEnv(env) ==
    /\ env # lg_env
    /\ lg_env' = env
    /\ UNCHANGED <<lg_instance, lg_objects, lg_initialized, lg_log_path, lg_handler,
                   lg_handlers, lg_calls, lg_opened_at, lg_first_path, lg_line>>
    /\ UNCHANGED restOfLogger

\* RobotCustomLogger(): __new__ then __init__
NewRobotCustomLogger ==
    /\ lg_objects' = IF lg_instance = 0 THEN lg_objects + 1 ELSE lg_objects
    /\ lg_instance' = IF lg_instance = 0 THEN lg_objects' ELSE lg_instance
    /\ lg_initialized' = TRUE
    /\ lg_log_path' = IF lg_initialized THEN lg_log_path ELSE NoneV
    /\ lg_handler' = IF lg_initialized THEN lg_handler ELSE NoneV
    /\ UNCHANGED <<lg_env, lg_handlers, lg_calls, lg_opened_at, lg_first_path, lg_line>>
    /\ UNCHANGED restOfLogger

\* info / error / success / debug / warning -> _log(level, message, robot_log)
Log(level) ==
    /\ lg_instance # 0
    /\ lg_calls < MaxLogCalls
    /\ lg_calls' = lg_calls + 1
    /\ LET e == EnsureHandler(lg_handler, lg_log_path, lg_handlers, lg_env)
       IN /\ lg_handler' = e.handler
          /\ lg_log_path' = e.log_path
          /\ lg_handlers' = e.handlers
          /\ lg_opened_at' = IF e.opened /\ lg_opened_at = 0 THEN lg_calls' ELSE lg_opened_at
          /\ lg_first_path' = IF e.opened /\ lg_first_path = NoneV
                              THEN e.log_path ELSE lg_first_path
          /\ lg_line' = Some([files |-> e.handlers,
                              levelname |-> LogLevel(level),
                              text |-> _icons[level] \o " message"])
    /\ UNCHANGED <<lg_env, lg_instance, lg_objects, lg_initialized>>
    /\ UNCHANGED restOfLogger

\* ---------------------------------------------------------- client factory
\* the factories pre-registered at import
BuiltinRegistry ==
    [n \in {"openai", "anthropic", "claude", "gemini", "google"} |->
        CASE n = "openai" -> "OpenAIClient"
          [] n \in {"anthropic", "claude"} -> "AnthropicClient"
          [] OTHER -> "GeminiClient"]

\* names and factories given to register_client, models given to create_client
ClientNames == {"OpenAI", "mistral", "Mistral", "bedrock"}
CustomFactories == {"factoryA", "factoryB"}
ModelArgNames == {NoneV, Some("gpt-4o")}

\* register_client storing the name as given
RegistryKeyAsGiven(name) == name

\* the key a name is stored and looked up under: name.lower()
RegistryKey(name) == Lower(name)

\* _registry[key] = factory
DictSet(d, key, value) ==
    [k \in DOMAIN d \cup {key} |-> IF k = key THEN value ELSE d[k]]

\* create_client: the message of the ValueError
UnsupportedMessage(client_name, registry) ==
    "Unsupported LLM client: " \o client_name \o ". Registered providers: "
        \o JoinWith(", ", SortedStrings(DOMAIN registry))

InitFactory ==
    /\ fc_registry = BuiltinRegistry
    /\ fc_history = << >>
    /\ fc_call = EmptyDict
    /\ fc_invoked = NoneV
    /\ fc_outcome = NoOutcome

\* LLMClientFactory.register_client(name, factory)
RegisterClient(name, factory) ==
    /\ Len(fc_history) < MaxRegistrations
    /\ fc_registry' = DictSet(fc_registry, RegistryKey(name), factory)
    /\ fc_history' = Append(fc_history, [name |-> name, factory |-> factory])
    /\ fc_call' = EmptyDict
    /\ fc_invoked' = NoneV
    /\ fc_outcome' = NoOutcome
    /\ UNCHANGED restOfFactory

\* LLMClientFactory.create_client(client_name, model)
CreateClient(client_name, model) ==
    /\ fc_call' = [client_name |-> client_name, model |-> model]
    /\ LET client_name_lower == Lower(client_name)
           factory == Get(fc_registry, client_name_lower)
       IN IF factory = NoneV
          THEN /\ fc_outcome' = Raised("ValueError",
                                       UnsupportedMessage(client_name, fc_registry))
               /\ fc_invoked' = NoneV
          ELSE /\ fc_outcome' = Returned
               /\ fc_invoked' = Some([factory |-> factory[1], model |-> model,
                                      config |-> "Config"])
    /\ UNCHANGED <<fc_registry, fc_history>>
    /\ UNCHANGED restOfFactory

\* -------------------------------------------------------- provider adapters
\* OpenAIClient, OllamaClient, AnthropicClient and DeepSeekClient.
\* temperature and top_p are counted in tenths: 10 is the default 1.0.
Providers == {"openai", "ollama", "anthropic", "deepseek"}
DefaultSampling == 10
Temperatures == {-1, 0, 5, 10, 15, 20, 21}
TopPs == {-1, 0, 5, 10, 11}
ApiResults == {"response", "APIError"}

\* _validate_parameters: the largest temperature the adapter accepts
MaxTemperature(provider) == IF provider = "anthropic" THEN 10 ELSE 20

\* _validate_parameters checking the temperature only
ValidateTemperatureOnly(provider, temperature, top_p) ==
    IF ~(0 <= temperature /\ temperature <= MaxTemperature(provider))
    THEN Some("Invalid temperature")
    ELSE NoneV

\* _validate_parameters: the message of the ValueError it raises, << >> if none
ValidateParameters(provider, temperature, top_p) ==
    IF ~(0 <= temperature /\ temperature <= MaxTemperature(provider))
    THEN Some("Invalid temperature")
    ELSE IF ~(0 <= top_p /\ top_p <= 10)
    THEN Some("Invalid top_p")
    ELSE NoneV

\* every adapter sending both temperature and top_p
SamplingParamsBoth(provider, temperature, top_p) ==
    [temperature |-> temperature, top_p |-> top_p]

\* create_chat_completion: the sampling parameters put in the request
SamplingParams(provider, temperature, top_p) ==
    IF provider \in {"openai", "ollama"}
    THEN [temperature |-> temperature, top_p |-> top_p]
    ELSE IF temperature # DefaultSampling THEN [temperature |-> temperature]
    ELSE IF top_p # DefaultSampling THEN [top_p |-> top_p]
    ELSE [temperature |-> temperature]

\* create_chat_completion: the parameters of the API call
ApiParams(provider, temperature, top_p) ==
    LET sampling == SamplingParams(provider, temperature, top_p)
        base == IF provider = "openai"
                THEN [model |-> "default_model", messages |-> "messages"]
                ELSE [model |-> "default_model", messages |-> "messages",
                      max_tokens |-> 1400]
    IN [k \in DOMAIN base \cup DOMAIN sampling |->
            IF k \in DOMAIN sampling THEN sampling[k] ELSE base[k]]

InitAdapter ==
    /\ ad_call = EmptyDict
    /\ ad_requests = << >>
    /\ ad_errors = << >>
    /\ ad_outcome = NoOutcome

\* <provider>Client.create_chat_completion(messages, temperature=..., top_p=...)
CreateChatCompletion(provider, temperature, top_p, api_result) ==
    /\ ad_call' = [provider |-> provider, temperature |-> temperature, top_p |-> top_p]
    /\ LET invalid == ValidateParameters(provider, temperature, top_p)
       IN IF invalid # NoneV
          THEN /\ ad_requests' = << >>
               /\ ad_errors' = <<invalid[1], "API Error: " \o invalid[1]>>
               /\ ad_outcome' = Raised("ValueError", invalid[1])
          ELSE /\ ad_requests' = <<ApiParams(provider, temperature, top_p)>>
               /\ IF api_result = "response"
                  THEN /\ ad_errors' = << >>
                       /\ ad_outcome' = Returned
                  ELSE /\ ad_errors' = <<"API Error: " \o api_result>>
                       /\ ad_outcome' = Raised(api_result, "provider call failed")
    /\ UNCHANGED restOfAdapter

\* ----------------------------------------------------------------- parse_ui
\* A node of the parsed XML: its attributes as written and its children.
Node(attrs, children) == [attrs |-> attrs, children |-> children]

\* attributes of the nodes a screen may hold
NodeAttrs ==
    { ("text" :> "OK" @@ "resource-id" :> "btn_ok" @@ "class" :> "Button"
          @@ "clickable" :> "true" @@ "enabled" :> "true"),
      ("content-desc" :> "Menu" @@ "clickable" :> "true" @@ "enabled" :> "true"),
      ("class" :> "View" @@ "clickable" :> "TRUE" @@ "enabled" :> "True"),
      ("content-desc" :> "Back" @@ "resource-id" :> "back" @@ "clickable" :> "true"
          @@ "enabled" :> "true"),
      ("text" :> "Next" @@ "clickable" :> "true" @@ "enabled" :> "true"),
      ("text" :> "Off" @@ "clickable" :> "true" @@ "enabled" :> "false"),
      ("text" :> "Label" @@ "enabled" :> "true") }

Layout == [class |-> "FrameLayout"]

\* t below k nested layouts, so that its root lies at depth k
RECURSIVE Nested(_, _)
Nested(k, t) == IF k = 0 THEN t ELSE Node(Layout, <<Nested(k - 1, t)>>)

\* the children are the labelled nodes with a clickable attribute
Leaves ==
    {Node(a, << >>) : a \in {b \in NodeAttrs :
        "clickable" \in DOMAIN b /\ DOMAIN b \cap {"text", "content-desc"} # {}}}
Subtrees ==
    {Node(a, c) : a \in NodeAttrs,
                  c \in UNION {[1..n -> Leaves] : n \in 0..MaxChildren}}
RootDepths == {11, 12, 13}
\* ui_xml by what ET.fromstring makes of it: a tree, or a ParseError
Malformed == [well_formed |-> FALSE, root |-> Node(Layout, << >>)]
UiXmls ==
    {Malformed} \cup {[well_formed |-> TRUE, root |-> Nested(k, t)] :
                         k \in RootDepths, t \in Subtrees}
MaxItems == 0..3

max_depth == 12

\* walk: attrs of a node
Attrs(node) ==
    [text |-> GetOr(node.attrs, "text", ""),
     resource_id |-> GetOr(node.attrs, "resource-id", ""),
     class_name |-> GetOr(node.attrs, "class", ""),
     content_desc |-> GetOr(node.attrs, "content-desc", ""),
     package |-> GetOr(node.attrs, "package", ""),
     clickable |-> Lower(GetOr(node.attrs, "clickable", "false")) = "true",
     enabled |-> Lower(GetOr(node.attrs, "enabled", "false")) = "true",
     bounds |-> GetOr(node.attrs, "bounds", ""),
     index |-> GetOr(node.attrs, "index", "")]

\* walk(node, depth): the candidates it appends, in the order it appends them
RECURSIVE Walk(_, _)
RECURSIVE WalkChildren(_, _)
Walk(node, depth) ==
    IF depth > max_depth THEN << >>
    ELSE (IF Attrs(node).clickable /\ Attrs(node).enabled THEN <<Attrs(node)>> ELSE << >>)
         \o WalkChildren(node.children, depth + 1)

WalkChildren(children, depth) ==
    IF children = << >> THEN << >>
    ELSE Walk(Head(children), depth) \o WalkChildren(Tail(children), depth)

\* placing an item before the items of equal score
InsertBeforeEqual(sorted, item) ==
    LET before == SelectSeq(sorted, LAMBDA x : sort_key(x) > sort_key(item))
        after == SelectSeq(sorted, LAMBDA x : sort_key(x) <= sort_key(item))
    IN before \o <<item>> \o after

\* list.sort(key=sort_key, reverse=True) is stable: an item goes behind the
\* items of greater or equal score met before it
InsertStable(sorted, item) ==
    LET before == SelectSeq(sorted, LAMBDA x : sort_key(x) >= sort_key(item))
        after == SelectSeq(sorted, LAMBDA x : sort_key(x) < sort_key(item))
    IN before \o <<item>> \o after

RECURSIVE SortCandidates(_, _)
SortCandidates(sorted, rest) ==
    IF rest = << >> THEN sorted
    ELSE SortCandidates(InsertStable(sorted, Head(rest)), Tail(rest))

\* DeviceConnector.parse_ui(ui_xml, max_items), max_items >= 0
ParseUiResult(ui_xml, max_items) ==
    IF ~ui_xml.well_formed THEN << >>
    ELSE LET candidates == SortCandidates(<< >>, Walk(ui_xml.root, 0))
         IN SubSeq(candidates, 1, IF max_items < Len(candidates)
                                  THEN max_items ELSE Len(candidates))

InitParse ==
    /\ pu_call = EmptyDict
    /\ pu_result = NoneV

ParseUi(ui_xml, max_items) ==
    /\ pu_result = NoneV
    /\ pu_call' = [ui_xml |-> ui_xml, max_items |-> max_items]
    /\ pu_result' = Some(ParseUiResult(ui_xml, max_items))
    /\ UNCHANGED restOfParse

\* the caller is done with the candidates
DropCandidates ==
    /\ pu_result # NoneV
    /\ pu_call' = EmptyDict
    /\ pu_result' = NoneV
    /\ UNCHANGED restOfParse

\* ------------------------------------------------ the vision pipeline
\* OmniParserOrchestrator.find_element: the detector client, the result
\* processor and the LLM element selector, one call at a time.  The text the
\* detector returns is a sequence of lines; a line is what the line pattern
\* and the literal parser make of it.

ElementLine(prefix, index, attributes) ==
    [matches |-> TRUE, label_prefix |-> prefix, index |-> index,
     literal |-> "dict", attributes |-> attributes]

LineTime ==
    ElementLine("icon", 0, [type |-> "text", bbox |-> <<147, 24, 240, 40>>,
                            interactivity |-> FALSE, content |-> "22:37"])
LineYouTube ==
    ElementLine("icon", 3, [type |-> "icon", bbox |-> <<419, 170, 574, 266>>,
                            interactivity |-> TRUE, content |-> "YouTube "])
\* no interactivity and no bbox in the literal, the type capitalised
LineGmail ==
    ElementLine("icon", 9, [type |-> "Icon", content |-> "Gmail "])
\* a second line with the label of LineYouTube
LineYouTubeMusic ==
    ElementLine("icon", 3, [type |-> "icon", bbox |-> <<604, 362, 761, 454>>,
                            interactivity |-> TRUE, content |-> "YouTube Music"])
\* a line the pattern does not match
LineNoMatch ==
    [matches |-> FALSE, label_prefix |-> "", index |-> 0,
     literal |-> "none", attributes |-> EmptyDict]
\* a line whose braces hold no dict literal
LineBadLiteral ==
    [matches |-> TRUE, label_prefix |-> "icon", index |-> 5,
     literal |-> "syntax_error", attributes |-> EmptyDict]
LineSetLiteral ==
    [matches |-> TRUE, label_prefix |-> "icon", index |-> 6,
     literal |-> "set", attributes |-> EmptyDict]

Lines ==
    {LineTime, LineYouTube, LineGmail, LineYouTubeMusic, LineNoMatch, LineBadLiteral,
     LineSetLiteral}

ParsedTexts == UNION { [1..n -> Lines] : n \in 0..MaxLines }

ImageTempPath == "/tmp/gradio/image.webp"

\* what OmniParserClient.parse_image hands back: the pair, or an error
Detections ==
    { [raised |-> FALSE, image_temp_path |-> ImageTempPath, parsed_text |-> t] :
        t \in ParsedTexts }
    \cup { [raised |-> TRUE, image_temp_path |-> "", parsed_text |-> << >>] }

ElementTypes == {"interactive", " Text ", "all", "ICON", ""}

Description == "YouTube app"

\* what UnifiedLLMFacade.send_ai_request_and_return_response hands back
LlmReply(response) == [raised |-> FALSE, response |-> response]
LlmRaised == [raised |-> TRUE, response |-> EmptyDict]

LlmReplies ==
    { LlmReply([element_key |-> Some("icon3"), confidence |-> "high",
                reason |-> "the content is YouTube"]),
      LlmReply([element_key |-> Some("icon9")]),
      LlmReply([element_key |-> Some("icon7"), confidence |-> "low"]),
      LlmReply([element_key |-> Some("null"), confidence |-> "low"]),
      LlmReply([element_key |-> Some("")]),
      LlmReply([element_key |-> NoneV, reason |-> "nothing matches"]),
      LlmReply([confidence |-> "low"]),
      LlmRaised }

\* str.strip and str.replace(" ", "")
RECURSIVE StripLeft(_)
StripLeft(s) ==
    IF Len(s) > 0 /\ SubSeq(s, 1, 1) = " " THEN StripLeft(SubSeq(s, 2, Len(s))) ELSE s

RECURSIVE StripRight(_)
StripRight(s) ==
    IF Len(s) > 0 /\ SubSeq(s, Len(s), Len(s)) = " "
    THEN StripRight(SubSeq(s, 1, Len(s) - 1)) ELSE s

Strip(s) == StripRight(StripLeft(s))

RECURSIVE RemoveSpaces(_)
RemoveSpaces(s) ==
    IF Len(s) = 0 THEN ""
    ELSE (IF SubSeq(s, 1, 1) = " " THEN "" ELSE SubSeq(s, 1, 1))
         \o RemoveSpaces(SubSeq(s, 2, Len(s)))

\* OmniParserResultProcessor._build_element
BuildElement(label_prefix, index, attributes) ==
    [index |-> index,
     label |-> label_prefix \o " " \o ToString(index),
     element_type |-> GetOr(attributes, "type", "unknown"),
     bbox |-> GetOr(attributes, "bbox", << >>),
     interactivity |-> GetOr(attributes, "interactivity", FALSE),
     content |-> GetOr(attributes, "content", "")]

\* OmniParserResultProcessor._parse_response: lines the pattern does not
\* match and lines whose literal is no dict are skipped
RECURSIVE ParseResponseText(_)
ParseResponseText(response_text) ==
    IF response_text = << >> THEN << >>
    ELSE LET line == Head(response_text)
             rest == ParseResponseText(Tail(response_text))
         IN  IF ~line.matches \/ line.literal # "dict" THEN rest
             ELSE <<BuildElement(line.label_prefix, line.index, line.attributes)>> \o rest

ElementKey(element) == RemoveSpaces(element.label)

ToIcon(element) ==
    [type |-> element.element_type, bbox |-> element.bbox,
     interactivity |-> element.interactivity, content |-> element.content]

\* the dict comprehension: a later element replaces an earlier one of its key
RECURSIVE IconsByKey(_)
IconsByKey(elements) ==
    IF elements = << >> THEN EmptyDict
    ELSE LET n == Len(elements)
         IN  DictSet(IconsByKey(SubSeq(elements, 1, n - 1)),
                     ElementKey(elements[n]), ToIcon(elements[n]))

FilterSeq(elements, Keep(_)) ==
    LET F[i \in 0..Len(elements)] ==
            IF i = 0 THEN << >>
            ELSE IF Keep(elements[i]) THEN Append(F[i - 1], elements[i]) ELSE F[i - 1]
    IN  F[Len(elements)]

\* OmniParserResultProcessor.get_parsed_ui_elements
GetParsedUiElements(elements, element_type) ==
    LET wanted == Lower(Strip(element_type))
        IsInteractive(el) == el.interactivity
        IsOfType(el) == Lower(el.element_type) = wanted
        AnyElement(el) == TRUE
        filtered == IF element_type = "" THEN elements
                    ELSE IF wanted = "interactive" THEN FilterSeq(elements, IsInteractive)
                    ELSE IF wanted = "all" THEN FilterSeq(elements, AnyElement)
                    ELSE FilterSeq(elements, IsOfType)
    IN  IconsByKey(filtered)

\* OmniParserElementSelector._parse_response with the membership test left out
ParseResponseUnchecked(response, elements_data) ==
    LET element_key == GetOr(response, "element_key", NoneV)
    IN  IF element_key = NoneV \/ element_key[1] = "" \/ element_key[1] = "null"
        THEN NoneV
        ELSE Some([element_key |-> element_key[1],
                   element_data |-> GetOr(elements_data, element_key[1], EmptyDict),
                   confidence |-> GetOr(response, "confidence", "unknown"),
                   reason |-> GetOr(response, "reason", "")])

\* OmniParserElementSelector._parse_response
ParseResponse(response, elements_data) ==
    LET element_key == GetOr(response, "element_key", NoneV)
    IN  IF element_key = NoneV \/ element_key[1] = "" \/ element_key[1] = "null"
        THEN NoneV
        ELSE IF element_key[1] \notin DOMAIN elements_data
        THEN NoneV
        ELSE Some([element_key |-> element_key[1],
                   element_data |-> elements_data[element_key[1]],
                   confidence |-> GetOr(response, "confidence", "unknown"),
                   reason |-> GetOr(response, "reason", "")])

\* OmniParserElementSelector.select_element: the request and the parsing of
\* the reply are inside one try whose handler logs and returns None
SelectionError == "Erreur lors de la selection: APIError"
NoMatchWarning == "Aucun element correspondant trouve"

SelectElementReturn(reply, elements_data) ==
    IF reply.raised
    THEN [result |-> NoneV, logged |-> <<SelectionError>>]
    ELSE LET r == ParseResponse(reply.response, elements_data)
         IN  [result |-> r,
              logged |-> IF r = NoneV THEN <<NoMatchWarning>> ELSE << >>]

InitVision ==
    /\ fe_pc = "idle"
    /\ fe_call = EmptyDict
    /\ fe_detected = NoneV
    /\ fe_elements = NoneV
    /\ fe_reply = NoneV
    /\ fe_trace = << >>
    /\ fe_logged = << >>
    /\ fe_result = NoneV
    /\ fe_outcome = NoOutcome

\* find_element is called
FindElement(element_description, element_type) ==
    /\ fe_pc = "idle"
    /\ fe_pc' = "detect"
    /\ fe_call' = [element_description |-> element_description,
                   element_type |-> element_type]
    /\ UNCHANGED <<fe_detected, fe_elements, fe_reply, fe_trace, fe_logged,
                   fe_result, fe_outcome>>
    /\ UNCHANGED restOfVision

\* step 1: self.client.parse_image and the test of the text
ParseImage(detection) ==
    /\ fe_pc = "detect"
    /\ fe_trace' = Append(fe_trace, "client.parse_image")
    /\ IF detection.raised
       THEN /\ fe_pc' = "done"
            /\ fe_outcome' = Raised("ConnectionError", "parse_image")
            /\ UNCHANGED <<fe_detected, fe_logged>>
       ELSE /\ fe_detected' = Some([image_temp_path |-> detection.image_temp_path,
                                    parsed_text |-> detection.parsed_text])
            /\ IF detection.parsed_text = << >>
               THEN /\ fe_pc' = "done"
                    /\ fe_outcome' = Returned
                    /\ fe_logged' = Append(fe_logged, "OmniParser n'a detecte aucun element")
               ELSE /\ fe_pc' = "filter"
                    /\ UNCHANGED <<fe_outcome, fe_logged>>
    /\ UNCHANGED <<fe_call, fe_elements, fe_reply, fe_result>>
    /\ UNCHANGED restOfVision

\* step 2: the processor is built and get_parsed_ui_elements filters
ParseAndFilter ==
    /\ fe_pc = "filter"
    /\ LET elements_data ==
               GetParsedUiElements(ParseResponseText(fe_detected[1].parsed_text),
                                   fe_call.element_type)
       IN  /\ fe_elements' = Some(elements_data)
           /\ IF DOMAIN elements_data = {}
              THEN /\ fe_pc' = "done"
                   /\ fe_outcome' = Returned
                   /\ fe_logged' = Append(fe_logged, "Aucun element de ce type trouve")
              ELSE /\ fe_pc' = "select"
                   /\ UNCHANGED <<fe_outcome, fe_logged>>
    /\ fe_trace' = Append(fe_trace, "processor.get_parsed_ui_elements")
    /\ UNCHANGED <<fe_call, fe_detected, fe_reply, fe_result>>
    /\ UNCHANGED restOfVision

\* step 3: self.selector.select_element, which asks the LLM; then the path
\* of the annotated image is added to a result
SelectElement(reply) ==
    /\ fe_pc = "select"
    /\ LET ret == SelectElementReturn(reply, fe_elements[1])
       IN  /\ fe_reply' = Some(reply)
           /\ fe_trace' = fe_trace \o <<"selector.select_element",
                                        "llm.send_ai_request_and_return_response">>
           /\ IF ret.result = NoneV
              THEN /\ fe_result' = NoneV
                   /\ fe_logged' = fe_logged \o ret.logged
                                     \o <<"Le LLM n'a trouve aucun element correspondant">>
              ELSE /\ fe_result' = Some([image_temp_path |-> fe_detected[1].image_temp_path]
                                        @@ ret.result[1])
                   /\ fe_logged' = fe_logged \o ret.logged
           /\ fe_outcome' = Returned
           /\ fe_pc' = "done"
    /\ UNCHANGED <<fe_call, fe_detected, fe_elements>>
    /\ UNCHANGED restOfVision

\* the caller has the result; the orchestrator is ready for the next call
FindElementDone ==
    /\ fe_pc = "done"
    /\ fe_pc' = "idle"
    /\ fe_call' = EmptyDict
    /\ fe_detected' = NoneV
    /\ fe_elements' = NoneV
    /\ fe_reply' = NoneV
    /\ fe_trace' = << >>
    /\ fe_logged' = << >>
    /\ fe_result' = NoneV
    /\ fe_outcome' = NoOutcome
    /\ UNCHANGED restOfVision

\* ------------------------------------------------------- bbox_to_pixels
\* OmniParserOrchestrator.bbox_to_pixels.  A normalized coordinate is counted
\* in thousandths; the products with the dimensions used here are the same in
\* binary floating point and in exact arithmetic.
Normalized == {-5, 574, 1000}
ExampleBbox == <<419, 170, 574, 266>>
Bboxes == {ExampleBbox} \cup UNION { [1..n -> Normalized] : n \in 0..MaxBboxLen }
ImageWidths == {1080, 640}
ImageHeights == {1920}

\* int() of a quotient: the fraction is dropped, toward zero
IntOf(num, den) == IF num >= 0 THEN num \div den ELSE -((-num) \div den)

\* round() in place of int()
ToPixelRounded(norm, dimension) ==
    IF norm >= 0 THEN (2 * norm * dimension + 1000) \div (2 * 1000)
    ELSE -((2 * (-norm) * dimension + 1000) \div (2 * 1000))

\* int(x_norm * image_width)
ToPixel(norm, dimension) == IntOf(norm * dimension, 1000)

BboxToPixelsReturn(bbox_normalized, image_width, image_height) ==
    IF Len(bbox_normalized) # 4
    THEN [outcome |-> Raised("ValueError", "bbox doit contenir 4 valeurs, recu "
                                              \o ToString(Len(bbox_normalized))),
          value |-> NoneV]
    ELSE [outcome |-> Returned,
          value |-> Some(<<ToPixel(bbox_normalized[1], image_width),
                           ToPixel(bbox_normalized[2], image_height),
                           ToPixel(bbox_normalized[3], image_width),
                           ToPixel(bbox_normalized[4], image_height)>>)]

InitBbox ==
    /\ bb_call = EmptyDict
    /\ bb_result = NoneV
    /\ bb_outcome = NoOutcome

BboxToPixels(bbox_normalized, image_width, image_height) ==
    /\ bb_outcome = NoOutcome
    /\ bb_call' = [bbox_normalized |-> bbox_normalized, image_width |-> image_width,
                   image_height |-> image_height]
    /\ LET ret == BboxToPixelsReturn(bbox_normalized, image_width, image_height)
       IN  /\ bb_result' = ret.value
           /\ bb_outcome' = ret.outcome
    /\ UNCHANGED restOfBbox

\* the caller has the pixels
DropPixels ==
    /\ bb_outcome # NoOutcome
    /\ bb_call' = EmptyDict
    /\ bb_result' = NoneV
    /\ bb_outcome' = NoOutcome
    /\ UNCHANGED restOfBbox

\* ------------------------------------------- the standalone OmniParser
\* OmniParser.parse_screenshot of agent/llm/_huggingface.py.  The image is a
\* path, a PIL image, bytes or something else; temp_image.png is the file the
\* method writes for the last two.
ImageInputs ==
    { [kind |-> k, data |-> d] : k \in {"str", "Image", "bytes"}, d \in {"shot1", "shot2"} }
        \cup { [kind |-> "NoneType", data |-> ""] }

TempPath == "temp_image.png"

\* what self.client.predict does: it returns the text, or it raises
Predictions ==
    { [raised |-> FALSE, result_text |-> t] : t \in ParsedTexts }
        \cup { [raised |-> TRUE, result_text |-> << >>] }

\* OmniParser._parse_response: lines that do not start with "icon " are
\* skipped, and so are lines on which eval or the id assignment raises
RECURSIVE ParseDetectorResponse(_)
ParseDetectorResponse(response_text) ==
    IF response_text = << >> THEN << >>
    ELSE LET line == Head(response_text)
             rest == ParseDetectorResponse(Tail(response_text))
         IN  IF ~line.matches \/ line.label_prefix # "icon" \/ line.literal # "dict"
             THEN rest
             ELSE <<("id" :> line.index) @@ line.attributes>> \o rest

InitDetector ==
    /\ ps_pc = "idle"
    /\ ps_image = EmptyDict
    /\ ps_image_input = NoneV
    /\ ps_files = {}
    /\ ps_events = << >>
    /\ ps_result = NoneV
    /\ ps_outcome = NoOutcome

\* parse_screenshot up to the request: lines 26-40
ParseScreenshot(image) ==
    /\ ps_pc = "idle"
    /\ ps_image' = image
    /\ CASE image.kind = "str" ->
              /\ ps_image_input' = Some(image.data)
              /\ ps_events' = <<"handle_file">>
              /\ ps_pc' = "predict"
              /\ UNCHANGED <<ps_files, ps_outcome>>
         [] image.kind \in {"Image", "bytes"} ->
              \* the file is written, handed to handle_file and removed
              /\ ps_image_input' = Some(TempPath)
              /\ ps_files' = (ps_files \cup {TempPath}) \ {TempPath}
              /\ ps_events' = <<"write", "handle_file", "remove">>
              /\ ps_pc' = "predict"
              /\ UNCHANGED ps_outcome
         [] OTHER ->
              /\ ps_pc' = "done"
              /\ ps_outcome' = Raised("ValueError",
                                      "Image must be a file path, PIL Image, or bytes")
              /\ UNCHANGED <<ps_image_input, ps_files, ps_events>>
    /\ UNCHANGED ps_result
    /\ UNCHANGED restOfDetector

\* the request to the hosted model and what follows it: lines 42-56
Predict(prediction) ==
    /\ ps_pc = "predict"
    /\ ps_events' = Append(ps_events,
                           IF ps_image_input[1] \in ps_files \/ ps_image.kind = "str"
                           THEN "predict" ELSE "predict without file")
    /\ ps_result' = Some(IF prediction.raised THEN << >>
                         ELSE ParseDetectorResponse(prediction.result_text))
    /\ ps_outcome' = Returned
    /\ ps_pc' = "done"
    /\ UNCHANGED <<ps_image, ps_image_input, ps_files>>
    /\ UNCHANGED restOfDetector

\* the caller has the elements
DropElements ==
    /\ ps_pc = "done"
    /\ ps_pc' = "idle"
    /\ ps_image' = EmptyDict
    /\ ps_image_input' = NoneV
    /\ ps_events' = << >>
    /\ ps_result' = NoneV
    /\ ps_outcome' = NoOutcome
    /\ UNCHANGED ps_files
    /\ UNCHANGED restOfDetector

\* ------------------------------------------ candidates in the Do prompt
\* The candidates collect_ui_candidates returns, the numbered lines
\* _render_ui_candidates writes for them, and the candidate the step runner
\* takes for an element_index.
DefaultMaxItems == 20
RenderLimit == 30

\* a screen with n clickable nodes, already in the order parse_ui gives them
ScreenCandidates(n) == [k \in 1..n |-> Element("item" \o ToString(k), "", "", "Button")]

\* candidates[:max_items]
CollectUiCandidatesReturn(n) ==
    LET all == ScreenCandidates(n)
    IN  SubSeq(all, 1, IF n < DefaultMaxItems THEN n ELSE DefaultMaxItems)

\* the description of one candidate: the parts that are not empty
Describe(element) ==
    LET parts == (IF element.text # "" THEN <<"text='" \o element.text \o "'">> ELSE << >>)
              \o (IF element.resource_id # ""
                  THEN <<"id='" \o element.resource_id \o "'">> ELSE << >>)
              \o (IF element.content_desc # ""
                  THEN <<"desc='" \o element.content_desc \o "'">> ELSE << >>)
              \o (IF element.class_name # ""
                  THEN <<"class='" \o element.class_name \o "'">> ELSE << >>)
    IN  IF parts # << >> THEN JoinWith(" | ", parts)
        ELSE "class='" \o element.class_name \o "'"

NoCandidatesText == "(aucun element UI interactif trouve)"

\* enumerate(ui_elements[:30]) without the start value 1
RenderUiCandidatesFromZero(ui_elements) ==
    IF ui_elements = << >>
    THEN [text |-> NoCandidatesText, lines |-> << >>]
    ELSE LET shown == SubSeq(ui_elements, 1, IF Len(ui_elements) < RenderLimit
                                              THEN Len(ui_elements) ELSE RenderLimit)
         IN  [text |-> "",
              lines |-> [k \in 1..Len(shown) |->
                            [number |-> k - 1, description |-> Describe(shown[k])]]]

\* AgentPromptComposer._render_ui_candidates: line k is "<k>. <description>"
RenderUiCandidates(ui_elements) ==
    IF ui_elements = << >>
    THEN [text |-> NoCandidatesText, lines |-> << >>]
    ELSE LET shown == SubSeq(ui_elements, 1, IF Len(ui_elements) < RenderLimit
                                              THEN Len(ui_elements) ELSE RenderLimit)
         IN  [text |-> "",
              lines |-> [k \in 1..Len(shown) |->
                            [number |-> k, description |-> Describe(shown[k])]]]

InitPrompt ==
    /\ pm_pc = "idle"
    /\ pm_candidates = << >>
    /\ pm_rendered = NoneV
    /\ pm_index = NoneV
    /\ pm_resolved = NoneV
    /\ pm_outcome = NoOutcome

\* do(): collect_ui_candidates, then ask_ai_do composes the messages
CollectAndCompose(n) ==
    /\ pm_pc = "idle"
    /\ pm_candidates' = CollectUiCandidatesReturn(n)
    /\ pm_rendered' = Some(RenderUiCandidates(pm_candidates'))
    /\ pm_pc' = "asked"
    /\ UNCHANGED <<pm_index, pm_resolved, pm_outcome>>
    /\ UNCHANGED restOfPrompt

\* _execute_do_from_tool_calls takes the candidate of tap_element(element_index)
ResolveElementIndex(element_index) ==
    /\ pm_pc = "asked"
    /\ pm_index' = Some(element_index)
    /\ IF InvalidElementIndex(Some(element_index), Len(pm_candidates))
       THEN /\ pm_resolved' = NoneV
            /\ pm_outcome' = Raised("AssertionError",
                  InvalidIndexMessage(Some(element_index), Len(pm_candidates)))
       ELSE /\ pm_resolved' = Some(ElementAt(pm_candidates, element_index))
            /\ pm_outcome' = Returned
    /\ pm_pc' = "resolved"
    /\ UNCHANGED <<pm_candidates, pm_rendered>>
    /\ UNCHANGED restOfPrompt

\* do() has returned or raised
PromptDone ==
    /\ pm_pc = "resolved"
    /\ pm_pc' = "idle"
    /\ pm_candidates' = << >>
    /\ pm_rendered' = NoneV
    /\ pm_index' = NoneV
    /\ pm_resolved' = NoneV
    /\ pm_outcome' = NoOutcome
    /\ UNCHANGED restOfPrompt

\* ------------------------------------------- the ledger shared by processes
\* Each process has its own TokenHelper (model gpt-4o-mini) and runs
\* calculate_cost or get_cumulated_cost; the steps are the system calls on
\* _COST_FILE.
Procs == {1, 2}

LedgerFiles ==
    {Absent, Empty, NotJson, JsonArray, JsonObject(EmptyDict),
     JsonObject([cost |-> 45]), JsonObject([tokens |-> 1500]), JsonDump(45, 1500)}

InitLedgerProcs ==
    /\ pr_pc = [p \in Procs |-> "idle"]
    /\ pr_op = [p \in Procs |-> ""]
    /\ pr_call = [p \in Procs |-> EmptyDict]
    /\ pr_old_data = [p \in Procs |-> NoneV]
    /\ pr_outcome = [p \in Procs |-> NoOutcome]
    /\ lock_sh = {}
    /\ lock_ex = {}
    /\ pr_calls = 0
    /\ pr_tokens = 0

\* a process calls calculate_cost(prompt_tokens, completion_tokens): lines 159-167
ProcCalculateCost(p, prompt_tokens, completion_tokens) ==
    /\ pr_pc[p] = "idle"
    /\ pr_calls < MaxProcCalls
    /\ pr_calls' = pr_calls + 1
    /\ pr_op' = [pr_op EXCEPT ![p] = "calculate_cost"]
    /\ pr_call' = [pr_call EXCEPT ![p] =
                      [prompt_tokens |-> prompt_tokens,
                       completion_tokens |-> completion_tokens,
                       costs |-> Costs(prompt_tokens, completion_tokens, NoneV,
                                       DefaultPricedModel)]]
    /\ pr_old_data' = [pr_old_data EXCEPT ![p] = NoneV]
    /\ pr_outcome' = [pr_outcome EXCEPT ![p] = NoOutcome]
    /\ pr_pc' = [pr_pc EXCEPT ![p] = "load_open"]
    /\ UNCHANGED <<cost_file, lock_sh, lock_ex, pr_tokens>>
    /\ UNCHANGED restOfLedger

\* a process calls get_cumulated_cost()
ProcGetCumulatedCost(p) ==
    /\ pr_pc[p] = "idle"
    /\ pr_op' = [pr_op EXCEPT ![p] = "get_cumulated_cost"]
    /\ pr_old_data' = [pr_old_data EXCEPT ![p] = NoneV]
    /\ pr_outcome' = [pr_outcome EXCEPT ![p] = NoOutcome]
    /\ pr_pc' = [pr_pc EXCEPT ![p] = "load_open"]
    /\ UNCHANGED <<cost_file, pr_call, lock_sh, lock_ex, pr_calls, pr_tokens>>
    /\ UNCHANGED restOfLedger

\* where a process goes once _load_costs has returned data
AfterLoad(p, data) ==
    /\ pr_old_data' = [pr_old_data EXCEPT ![p] = Some(data)]
    /\ IF pr_op[p] = "calculate_cost"
       THEN /\ pr_pc' = [pr_pc EXCEPT ![p] = "save_open"]
            /\ UNCHANGED pr_outcome
       ELSE /\ pr_pc' = [pr_pc EXCEPT ![p] = "idle"]
            /\ pr_outcome' = [pr_outcome EXCEPT ![p] = Returned]

\* _load_costs: open(self._COST_FILE, 'r')
LoadOpen(p) ==
    /\ pr_pc[p] = "load_open"
    /\ IF cost_file.kind = "absent"
       THEN AfterLoad(p, ZeroLedger)
       ELSE /\ pr_pc' = [pr_pc EXCEPT ![p] = "load_lock"]
            /\ UNCHANGED <<pr_old_data, pr_outcome>>
    /\ UNCHANGED <<cost_file, pr_op, pr_call, lock_sh, lock_ex, pr_calls, pr_tokens>>
    /\ UNCHANGED restOfLedger

\* _load_costs: fcntl.flock(f.fileno(), fcntl.LOCK_SH)
LoadLock(p) ==
    /\ pr_pc[p] = "load_lock"
    /\ lock_ex = {}
    /\ lock_sh' = lock_sh \cup {p}
    /\ pr_pc' = [pr_pc EXCEPT ![p] = "load_read"]
    /\ UNCHANGED <<cost_file, pr_op, pr_call, pr_old_data, pr_outcome, lock_ex,
                   pr_calls, pr_tokens>>
    /\ UNCHANGED restOfLedger

\* _load_costs that keeps its lock after it has returned
LoadReadKeepsLock(p) ==
    /\ pr_pc[p] = "load_read"
    /\ IF LoadCostsRaises(cost_file)
       THEN /\ pr_pc' = [pr_pc EXCEPT ![p] = "idle"]
            /\ pr_outcome' = [pr_outcome EXCEPT ![p] =
                  Raised("AttributeError", "object has no attribute 'get'")]
            /\ UNCHANGED pr_old_data
       ELSE AfterLoad(p, LoadCosts(cost_file))
    /\ UNCHANGED <<cost_file, pr_op, pr_call, lock_sh, lock_ex, pr_calls, pr_tokens>>
    /\ UNCHANGED restOfLedger

\* _load_costs: json.load(f), the unlock, data.get and the return or the raise
LoadRead(p) ==
    /\ pr_pc[p] = "load_read"
    /\ lock_sh' = lock_sh \ {p}
    /\ IF LoadCostsRaises(cost_file)
       THEN /\ pr_pc' = [pr_pc EXCEPT ![p] = "idle"]
            /\ pr_outcome' = [pr_outcome EXCEPT ![p] =
                  Raised("AttributeError", "object has no attribute 'get'")]
            /\ UNCHANGED pr_old_data
       ELSE AfterLoad(p, LoadCosts(cost_file))
    /\ UNCHANGED <<cost_file, pr_op, pr_call, lock_ex, pr_calls, pr_tokens>>
    /\ UNCHANGED restOfLedger

\* _save_costs: open(self._COST_FILE, 'w') creates or truncates the file
SaveOpen(p) ==
    /\ pr_pc[p] = "save_open"
    /\ cost_file' = Empty
    /\ pr_pc' = [pr_pc EXCEPT ![p] = "save_lock"]
    /\ UNCHANGED <<pr_op, pr_call, pr_old_data, pr_outcome, lock_sh, lock_ex,
                   pr_calls, pr_tokens>>
    /\ UNCHANGED restOfLedger

\* _save_costs: fcntl.flock(f.fileno(), fcntl.LOCK_EX)
SaveLock(p) ==
    /\ pr_pc[p] = "save_lock"
    /\ lock_ex = {}
    /\ lock_sh = {}
    /\ lock_ex' = {p}
    /\ pr_pc' = [pr_pc EXCEPT ![p] = "save_dump"]
    /\ UNCHANGED <<cost_file, pr_op, pr_call, pr_old_data, pr_outcome, lock_sh,
                   pr_calls, pr_tokens>>
    /\ UNCHANGED restOfLedger

\* _save_costs: json.dump, the unlock and the close; calculate_cost returns
SaveDump(p) ==
    /\ pr_pc[p] = "save_dump"
    /\ LET new == NewCumulated(pr_old_data[p][1], pr_call[p])
       IN cost_file' = JsonDump(new.cost, new.tokens)
    /\ lock_ex' = {}
    /\ pr_tokens' = pr_tokens + pr_call[p].prompt_tokens + pr_call[p].completion_tokens
    /\ pr_outcome' = [pr_outcome EXCEPT ![p] = Returned]
    /\ pr_pc' = [pr_pc EXCEPT ![p] = "idle"]
    /\ UNCHANGED <<pr_op, pr_call, pr_old_data, lock_sh, pr_calls>>
    /\ UNCHANGED restOfLedger

\* the services as the keyword flows find them
InitServices ==
    /\ InitTokenHelper
    /\ cost_file = Absent
    /\ InitLedgerProcs
    /\ InitLogger
    /\ lg_env = [output_dir |-> NoneV, ci_log_dir |-> NoneV, writable |-> {TempDir}]
    /\ InitFactory
    /\ InitAdapter
    /\ InitParse
    /\ InitVision
    /\ InitBbox
    /\ InitDetector
    /\ InitPrompt

\* the services idle, for the specifications of one service
IdleLogger ==
    /\ InitLogger
    /\ lg_env = [output_dir |-> NoneV, ci_log_dir |-> NoneV, writable |-> {TempDir}]

\* ------------------------------------------------------------ specification
InitLocals ==
    /\ op = "idle"
    /\ pc = "idle"
    /\ instruction = ""
    /\ llm_calls = << >>
    /\ result = NoneV
    /\ outcome = NoOutcome
    /\ ui_candidates = << >>
    /\ ui_captures = 0
    /\ rf_locator = ""
    /\ dispatched = << >>
    /\ success_log = << >>
    /\ runner_log = << >>
    /\ screenshot_base64 = NoneV
    /\ rf_log = << >>
    /\ base64_data = ""
    /\ provider_result = NotCalled
    /\ image_url = NoneV
    /\ warnings = << >>

\* AgentKeywords.__init__ -> AgentStepRunner.__init__: ImageUploader(service="auto")
Init ==
    /\ InitLocals
    /\ InitServices
    /\ IMGBB_API_KEY \in Keys
    /\ FREEIMAGEHOST_API_KEY \in Keys
    /\ service = "auto"
    /\ uploader = SelectUploader(service, IMGBB_API_KEY, FREEIMAGEHOST_API_KEY)

Next ==
    \/ \E instr \in Instructions : Do(instr)
    \/ \E instr \in Instructions : VisualCheck(instr)
    \/ \E instr \in Instructions : Autonumous(instr)
    \/ CollectUiCandidates
    \/ AskAiDo
    \/ ExecuteDoFromToolCalls
    \/ RunRfKeyword
    \/ GetScreenshotBase64
    \/ EmbedImageToLog
    \/ UploadScreenshot
    \/ AskAiVisualCheck
    \/ Return

Spec == Init /\ [][Next]_vars

\* --------------------------------- _execute_visual_check_from_tool_calls alone
\* the method called with a result dict
CallExecuteVisualCheck(r) ==
    /\ op = "idle"
    /\ op' = "_execute_visual_check_from_tool_calls"
    /\ pc' = "execute_visual_check"
    /\ result' = Some(r)
    /\ UNCHANGED <<instruction, llm_calls, outcome, vcLocals, doLocals, configVars, uploadVars>>
    /\ UNCHANGED serviceVars

NextVisualAssert ==
    \/ \E r \in VisualResults : CallExecuteVisualCheck(r)
    \/ ExecuteVisualCheckFromToolCalls
    \/ Return

InitVisualAssert ==
    /\ InitLocals
    /\ InitServices
    /\ IMGBB_API_KEY = ""
    /\ FREEIMAGEHOST_API_KEY = ""
    /\ service = "auto"
    /\ uploader = SelectUploader(service, IMGBB_API_KEY, FREEIMAGEHOST_API_KEY)

SpecVisualAssert == InitVisualAssert /\ [][NextVisualAssert]_vars

\* ------------------------------------------------- the ImageUploader alone
\* ImageUploader(service)
NewImageUploader(svc) ==
    /\ op = "idle"
    /\ service' = svc
    /\ uploader' = SelectUploader(svc, IMGBB_API_KEY, FREEIMAGEHOST_API_KEY)
    /\ base64_data' = ""
    /\ provider_result' = NotCalled
    /\ image_url' = NoneV
    /\ outcome' = NoOutcome
    /\ warnings' = IF uploader' = "None"
                   THEN <<"No upload service configured. Images will be returned in base64.">>
                   ELSE << >>
    /\ UNCHANGED <<op, pc, instruction, llm_calls, result, doLocals, vcLocals,
                   IMGBB_API_KEY, FREEIMAGEHOST_API_KEY>>
    /\ UNCHANGED serviceVars

\* ImageUploader.upload_from_base64(base64_data), called by any caller
CallUploadFromBase64(data) ==
    /\ op = "idle"
    /\ \E response \in Responses :
          LET r == UploadFromBase64(uploader, data, response)
          IN /\ base64_data' = data
             /\ provider_result' = r.provider
             /\ warnings' = r.warnings
             /\ image_url' = IF r.raised THEN NoneV ELSE r.ret
             /\ outcome' = IF r.raised THEN Raised("Exception", "upload failed") ELSE Returned
    /\ UNCHANGED <<op, pc, instruction, llm_calls, result, doLocals, vcLocals, configVars>>
    /\ UNCHANGED serviceVars

InitUpload ==
    /\ InitLocals
    /\ InitServices
    /\ IMGBB_API_KEY \in Keys
    /\ FREEIMAGEHOST_API_KEY \in Keys
    /\ service \in Services
    /\ uploader = SelectUploader(service, IMGBB_API_KEY, FREEIMAGEHOST_API_KEY)

NextUpload ==
    \/ \E svc \in Services : NewImageUploader(svc)
    \/ \E data \in Screenshots : CallUploadFromBase64(data)

SpecUpload == InitUpload /\ [][NextUpload]_vars

\* ------------------------------------------------- the TokenHelper alone
\* one caller at a time constructs accountants and calls calculate_cost
InitCost ==
    /\ InitLocals
    /\ InitParse
    /\ InitVision
    /\ InitBbox
    /\ InitDetector
    /\ InitPrompt
    /\ InitAdapter
    /\ InitFactory
    /\ IdleLogger
    /\ InitTokenHelper
    /\ InitLedgerProcs
    /\ cost_file \in {Absent, JsonDump(0, 0)}
    /\ IMGBB_API_KEY = ""
    /\ FREEIMAGEHOST_API_KEY = ""
    /\ service = "auto"
    /\ uploader = SelectUploader(service, IMGBB_API_KEY, FREEIMAGEHOST_API_KEY)

NextCost ==
    \/ \E m \in ModelNames : NewTokenHelper(m)
    \/ \E p \in PromptTokens, c \in CompletionTokens, m \in ModelArgs : CalculateCost(p, c, m)
    \/ SaveCosts
    \/ ResetAccumulation

SpecCost == InitCost /\ [][NextCost]_vars

\* --------------------------------------------- the ledger and its processes
NextLedger ==
    \/ \E p \in Procs, pt \in PromptTokens, ct \in CompletionTokens :
          ProcCalculateCost(p, pt, ct)
    \/ \E p \in Procs : ProcGetCumulatedCost(p)
    \/ \E p \in Procs : LoadOpen(p)
    \/ \E p \in Procs : LoadLock(p)
    \/ \E p \in Procs : LoadRead(p)
    \/ \E p \in Procs : SaveOpen(p)
    \/ \E p \in Procs : SaveLock(p)
    \/ \E p \in Procs : SaveDump(p)

\* processes sharing a well-formed ledger
InitConcurrent ==
    /\ InitLocals
    /\ InitParse
    /\ InitVision
    /\ InitBbox
    /\ InitDetector
    /\ InitPrompt
    /\ InitAdapter
    /\ InitFactory
    /\ IdleLogger
    /\ InitTokenHelper
    /\ InitLedgerProcs
    /\ cost_file = JsonDump(0, 0)
    /\ IMGBB_API_KEY = ""
    /\ FREEIMAGEHOST_API_KEY = ""
    /\ service = "auto"
    /\ uploader = SelectUploader(service, IMGBB_API_KEY, FREEIMAGEHOST_API_KEY)

SpecConcurrent == InitConcurrent /\ [][NextLedger]_vars

\* processes finding any content in the ledger file
InitLedgerFile ==
    /\ InitLocals
    /\ InitParse
    /\ InitVision
    /\ InitBbox
    /\ InitDetector
    /\ InitPrompt
    /\ InitAdapter
    /\ InitFactory
    /\ IdleLogger
    /\ InitTokenHelper
    /\ InitLedgerProcs
    /\ cost_file \in LedgerFiles
    /\ IMGBB_API_KEY = ""
    /\ FREEIMAGEHOST_API_KEY = ""
    /\ service = "auto"
    /\ uploader = SelectUploader(service, IMGBB_API_KEY, FREEIMAGEHOST_API_KEY)

SpecLedgerFile == InitLedgerFile /\ [][NextLedger]_vars

\* ---------------------------------------------------- the logger alone
InitLoggerSpec ==
    /\ InitLocals
    /\ InitParse
    /\ InitVision
    /\ InitBbox
    /\ InitDetector
    /\ InitPrompt
    /\ InitAdapter
    /\ InitFactory
    /\ InitTokenHelper
    /\ cost_file = Absent
    /\ InitLedgerProcs
    /\ InitLogger
    /\ IMGBB_API_KEY = ""
    /\ FREEIMAGEHOST_API_KEY = ""
    /\ service = "auto"
    /\ uploader = SelectUploader(service, IMGBB_API_KEY, FREEIMAGEHOST_API_KEY)

NextLogger ==
    \/ \E env \in LogEnvs : ChangeLogEnv(env)
    \/ NewRobotCustomLogger
    \/ \E level \in Levels : Log(level)

SpecLogger == InitLoggerSpec /\ [][NextLogger]_vars

\* ----------------------------------------------- the client factory alone
InitFactorySpec ==
    /\ InitLocals
    /\ InitParse
    /\ InitVision
    /\ InitBbox
    /\ InitDetector
    /\ InitPrompt
    /\ InitAdapter
    /\ InitTokenHelper
    /\ cost_file = Absent
    /\ InitLedgerProcs
    /\ IdleLogger
    /\ InitFactory
    /\ IMGBB_API_KEY = ""
    /\ FREEIMAGEHOST_API_KEY = ""
    /\ service = "auto"
    /\ uploader = SelectUploader(service, IMGBB_API_KEY, FREEIMAGEHOST_API_KEY)

NextFactory ==
    \/ \E n \in ClientNames, f \in CustomFactories : RegisterClient(n, f)
    \/ \E n \in ClientNames, m \in ModelArgNames : CreateClient(n, m)

SpecFactory == InitFactorySpec /\ [][NextFactory]_vars

\* --------------------------------------------- the provider adapters alone
InitAdapterSpec ==
    /\ InitLocals
    /\ InitParse
    /\ InitVision
    /\ InitBbox
    /\ InitDetector
    /\ InitPrompt
    /\ InitTokenHelper
    /\ cost_file = Absent
    /\ InitLedgerProcs
    /\ IdleLogger
    /\ InitFactory
    /\ InitAdapter
    /\ IMGBB_API_KEY = ""
    /\ FREEIMAGEHOST_API_KEY = ""
    /\ service = "auto"
    /\ uploader = SelectUploader(service, IMGBB_API_KEY, FREEIMAGEHOST_API_KEY)

NextAdapter ==
    \E provider \in Providers, t \in Temperatures, p \in TopPs, r \in ApiResults :
        CreateChatCompletion(provider, t, p, r)

SpecAdapter == InitAdapterSpec /\ [][NextAdapter]_vars

\* ------------------------------------------------------- parse_ui alone
InitParseSpec ==
    /\ InitLocals
    /\ InitTokenHelper
    /\ cost_file = Absent
    /\ InitLedgerProcs
    /\ IdleLogger
    /\ InitFactory
    /\ InitAdapter
    /\ InitParse
    /\ InitVision
    /\ InitBbox
    /\ InitDetector
    /\ InitPrompt
    /\ IMGBB_API_KEY = ""
    /\ FREEIMAGEHOST_API_KEY = ""
    /\ service = "auto"
    /\ uploader = SelectUploader(service, IMGBB_API_KEY, FREEIMAGEHOST_API_KEY)

NextParse ==
    \/ \E x \in UiXmls, n \in MaxItems : ParseUi(x, n)
    \/ DropCandidates

SpecParse == InitParseSpec /\ [][NextParse]_vars

\* ------------------------------------------------- find_element alone
InitVisionSpec ==
    /\ InitLocals
    /\ InitTokenHelper
    /\ cost_file = Absent
    /\ InitLedgerProcs
    /\ IdleLogger
    /\ InitFactory
    /\ InitAdapter
    /\ InitParse
    /\ InitVision
    /\ InitBbox
    /\ InitDetector
    /\ InitPrompt
    /\ IMGBB_API_KEY = ""
    /\ FREEIMAGEHOST_API_KEY = ""
    /\ service = "auto"
    /\ uploader = SelectUploader(service, IMGBB_API_KEY, FREEIMAGEHOST_API_KEY)

NextVision ==
    \/ \E t \in ElementTypes : FindElement(Description, t)
    \/ \E d \in Detections : ParseImage(d)
    \/ ParseAndFilter
    \/ \E r \in LlmReplies : SelectElement(r)
    \/ FindElementDone

SpecVision == InitVisionSpec /\ [][NextVision]_vars

\* ------------------------------------------------ bbox_to_pixels alone
InitBboxSpec ==
    /\ InitLocals
    /\ InitTokenHelper
    /\ cost_file = Absent
    /\ InitLedgerProcs
    /\ IdleLogger
    /\ InitFactory
    /\ InitAdapter
    /\ InitParse
    /\ InitVision
    /\ InitBbox
    /\ InitDetector
    /\ InitPrompt
    /\ IMGBB_API_KEY = ""
    /\ FREEIMAGEHOST_API_KEY = ""
    /\ service = "auto"
    /\ uploader = SelectUploader(service, IMGBB_API_KEY, FREEIMAGEHOST_API_KEY)

NextBbox ==
    \/ \E b \in Bboxes, w \in ImageWidths, h \in ImageHeights : BboxToPixels(b, w, h)
    \/ DropPixels

SpecBbox == InitBboxSpec /\ [][NextBbox]_vars

\* ---------------------------------------------- parse_screenshot alone
InitDetectorSpec ==
    /\ InitLocals
    /\ InitTokenHelper
    /\ cost_file = Absent
    /\ InitLedgerProcs
    /\ IdleLogger
    /\ InitFactory
    /\ InitAdapter
    /\ InitParse
    /\ InitVision
    /\ InitBbox
    /\ InitDetector
    /\ InitPrompt
    /\ IMGBB_API_KEY = ""
    /\ FREEIMAGEHOST_API_KEY = ""
    /\ service = "auto"
    /\ uploader = SelectUploader(service, IMGBB_API_KEY, FREEIMAGEHOST_API_KEY)

NextDetector ==
    \/ \E i \in ImageInputs : ParseScreenshot(i)
    \/ \E r \in Predictions : Predict(r)
    \/ DropElements

SpecDetector == InitDetectorSpec /\ [][NextDetector]_vars

\* ------------------------------------- the candidates of one Do, alone
InitPromptSpec ==
    /\ InitLocals
    /\ InitTokenHelper
    /\ cost_file = Absent
    /\ InitLedgerProcs
    /\ IdleLogger
    /\ InitFactory
    /\ InitAdapter
    /\ InitParse
    /\ InitVision
    /\ InitBbox
    /\ InitDetector
    /\ InitPrompt
    /\ IMGBB_API_KEY = ""
    /\ FREEIMAGEHOST_API_KEY = ""
    /\ service = "auto"
    /\ uploader = SelectUploader(service, IMGBB_API_KEY, FREEIMAGEHOST_API_KEY)

NextPrompt ==
    \/ \E n \in 0..MaxQualifying : CollectAndCompose(n)
    \/ \E i \in 0..MaxQualifying : ResolveElementIndex(i)
    \/ PromptDone

SpecPrompt == InitPromptSpec /\ [][NextPrompt]_vars

\* ================================================================== claims
\* the model has answered the running Do with at least one tool call
DoHasToolCalls ==
    /\ op = "do"
    /\ result # NoneV
    /\ "tool_calls" \in DOMAIN result[1]
    /\ result[1].tool_calls # << >>

DoFirstCall == result[1].tool_calls[1].function

IndexInRange(arguments, n) ==
    /\ "element_index" \in DOMAIN arguments
    /\ 1 <= arguments.element_index
    /\ arguments.element_index <= n

HasText(arguments) == "text" \in DOMAIN arguments /\ arguments.text # ""

OutOfRangeFailure(n) ==
    /\ outcome.type = "AssertionError"
    /\ Contains(outcome.msg, "Invalid element_index")
    /\ Contains(outcome.msg, "Must be 1-" \o ToString(n))

\* C1: when the first tool call of a Do is tap_element(i) over n candidates:
\* with 1 <= i <= n the only dispatch ever issued is one 'Click Element' on
\* the locator of candidate i (1-based), and it has been issued when Do ends;
\* with i missing or out of 1..n nothing is dispatched and Do ends in an
\* AssertionError naming the index range.
C1_TapElementDispatch ==
    (DoHasToolCalls /\ DoFirstCall.name = "tap_element") =>
        LET a == DoFirstCall.arguments
            n == Len(ui_candidates)
        IN IF IndexInRange(a, n)
           THEN LET tap == RfCall("Click Element",
                              <<BuildLocatorFromElement(ui_candidates[a.element_index])>>)
                IN /\ dispatched \in {<< >>, <<tap>>}
                   /\ pc \in {"done", "failed"} => dispatched = <<tap>>
           ELSE /\ dispatched = << >>
                /\ pc \in {"execute_do", "failed"}
                /\ pc = "failed" => OutOfRangeFailure(n)

C1_Witness ==
    /\ DoHasToolCalls /\ DoFirstCall.name = "tap_element"
    /\ pc = "done"
    /\ Len(ui_candidates) = 2
    /\ ui_candidates[1] # ui_candidates[2]
    /\ DoFirstCall.arguments = [element_index |-> 2]
    /\ dispatched = <<RfCall("Click Element", <<BuildLocatorFromElement(ui_candidates[2])>>)>>

\* C2: when the first tool call of a Do is input_text(i, text) with a valid
\* i: with non-empty text the dispatches are 'Clear Text' then 'Input Text',
\* once each, on the locator of candidate i, 'Input Text' only after 'Clear
\* Text' has returned; with empty or missing text nothing is dispatched and
\* Do ends in the missing-text AssertionError.
C2_InputTextDispatch ==
    (DoHasToolCalls /\ DoFirstCall.name = "input_text"
        /\ IndexInRange(DoFirstCall.arguments, Len(ui_candidates))) =>
        LET a == DoFirstCall.arguments
            locator == BuildLocatorFromElement(ui_candidates[a.element_index])
        IN IF HasText(a)
           THEN LET clear == RfCall("Clear Text", <<locator>>)
                    input == RfCall("Input Text", <<locator, a.text>>)
                IN /\ dispatched \in {<< >>, <<clear>>, <<clear, input>>}
                   /\ Len(dispatched) = 2 =>
                        (success_log # << >> /\ success_log[1] = "Clear Text")
                   /\ pc = "done" => dispatched = <<clear, input>>
                   /\ pc = "failed" =>
                        (dispatched # << >> /\ outcome.type = "RobotKeywordError")
           ELSE /\ dispatched = << >>
                /\ pc \in {"execute_do", "failed"}
                /\ pc = "failed" =>
                     (outcome.type = "AssertionError"
                        /\ Contains(outcome.msg, "requires text"))

C2_Witness ==
    /\ DoHasToolCalls /\ DoFirstCall.name = "input_text"
    /\ pc = "done"
    /\ Len(ui_candidates) = 2
    /\ DoFirstCall.arguments = [element_index |-> 2, text |-> "hello"]
    /\ Len(dispatched) = 2
    /\ dispatched[1].keyword = "Clear Text" /\ dispatched[2].keyword = "Input Text"
    /\ success_log = <<"Clear Text", "Input Text">>

\* C3: when the model's reply to a Do has no tool_calls key or an empty
\* tool_calls list, nothing is dispatched and Do ends in the no-tool-calls
\* AssertionError.
C3_NoToolCalls ==
    (op = "do" /\ result # NoneV /\ GetOr(result[1], "tool_calls", << >>) = << >>) =>
        /\ dispatched = << >>
        /\ pc \in {"execute_do", "failed"}
        /\ pc = "failed" =>
             outcome = Raised("AssertionError", "AI did not return any tool calls")

C3_Witness ==
    /\ op = "do" /\ pc = "failed"
    /\ result = Some([tool_calls |-> << >>])
    /\ outcome.type = "AssertionError"
    /\ dispatched = << >>

\* keywords the first tool call may dispatch, with their arguments
DispatchesOfFirstCall ==
    LET a == DoFirstCall.arguments
        name == DoFirstCall.name
        valid == IndexInRange(a, Len(ui_candidates))
        locator == BuildLocatorFromElement(ui_candidates[a.element_index])
    IN IF name = "tap_element" /\ valid
       THEN <<RfCall("Click Element", <<locator>>)>>
       ELSE IF name = "input_text" /\ valid /\ HasText(a)
       THEN <<RfCall("Clear Text", <<locator>>), RfCall("Input Text", <<locator, a.text>>)>>
       ELSE IF name = "scroll_down"
       THEN <<RfCall("Swipe", <<"50", "80", "50", "20", "500">>)>>
       ELSE << >>

\* C4: when the model returns two or more tool calls, the dispatches of the
\* Do are those of the first tool call and no others, and the Do ends in an
\* AssertionError only if the first tool call alone is unusable: the calls
\* after the first cause neither a dispatch nor a failure.
C4_OnlyFirstToolCall ==
    (DoHasToolCalls /\ Len(result[1].tool_calls) >= 2) =>
        LET plan == DispatchesOfFirstCall
        IN /\ Len(dispatched) <= Len(plan)
           /\ dispatched = SubSeq(plan, 1, Len(dispatched))
           /\ pc = "done" => dispatched = plan
           /\ (pc = "failed" /\ outcome.type = "AssertionError") =>
                (plan = << >> /\ DoFirstCall.name # "scroll_down")
           /\ plan # << >> => outcome.type # "AssertionError"

C4_Witness ==
    /\ DoHasToolCalls /\ Len(result[1].tool_calls) >= 2
    /\ pc = "done"
    /\ DoFirstCall.name = "tap_element"
    /\ result[1].tool_calls[2].function.name = "long_press"
    /\ Len(dispatched) = 1
    /\ dispatched[1].keyword = "Click Element"

\* the host run's log holds the embedded screenshot of the running keyword
ScreenshotEmbedded ==
    /\ screenshot_base64 # NoneV
    /\ Len(rf_log) = 1
    /\ Contains(rf_log[1], "<img src=\"data:image/png;base64, " \o screenshot_base64[1] \o "\"")

\* C5: in a VisualCheck the screenshot is in the host run's log before the
\* upload, the model call and the assertion: whenever the upload has been
\* entered, a model call made, a result obtained, or the keyword has failed
\* after the capture, the embed has already happened.
C5_EmbedBeforeLaterSteps ==
    op = "visual_check" =>
        /\ (base64_data # "" \/ provider_result.called \/ image_url # NoneV
                \/ warnings # << >>) => ScreenshotEmbedded
        /\ llm_calls # << >> => ScreenshotEmbedded
        /\ result # NoneV => ScreenshotEmbedded
        /\ pc \in {"upload_from_base64", "ask_ai_visual_check", "execute_visual_check", "done"}
                => ScreenshotEmbedded
        /\ (pc = "failed" /\ screenshot_base64 # NoneV) => ScreenshotEmbedded

C5_Witness ==
    /\ op = "visual_check" /\ pc = "failed"
    /\ image_url # NoneV
    /\ outcome.type = "TypeError"
    /\ ScreenshotEmbedded

\* _execute_visual_check_from_tool_calls has reached its assertion step
AssertStepReached ==
    /\ op = "_execute_visual_check_from_tool_calls"
    /\ pc \in {"done", "failed"}
    /\ GetOr(result[1], "tool_calls", << >>) # << >>
    /\ result[1].tool_calls[1].function.name = "verify_visual_match"
    /\ "confidence_score" \in DOMAIN result[1].tool_calls[1].function.arguments

\* the issue part of the failure message, written out
IssuePart(issues) ==
    CASE Len(issues) = 0 -> ""
      [] Len(issues) = 1 -> " Issues: " \o issues[1]
      [] Len(issues) = 2 -> " Issues: " \o issues[1] \o ", " \o issues[2]
      [] OTHER -> " Issues: " \o issues[1] \o ", " \o issues[2] \o ", " \o issues[3]

C7_AutonumousNotImplemented ==
    op = "autonumous" =>
        /\ pc = "failed"
        /\ outcome.type = "NotImplementedError"
        /\ ui_captures = 0 /\ ui_candidates = << >>
        /\ screenshot_base64 = NoneV /\ rf_log = << >>
        /\ llm_calls = << >> /\ result = NoneV
        /\ dispatched = << >>

C7_Witness ==
    /\ op = "autonumous" /\ pc = "failed"
    /\ instruction = "type: hello"
    /\ outcome = Raised("NotImplementedError", "Agent.Autonumous is not implemented yet")

\* C8: upload_from_base64(d) always returns: the provider's URL when the
\* selected provider returned one, otherwise "data:image/png;base64," + d
\* with one fallback warning logged (no provider, provider returned no
\* value, provider raised).
C8_UploadNeverFails ==
    outcome # NoOutcome =>
        /\ outcome = Returned
        /\ image_url # NoneV
        /\ uploader = "None" <=> ~provider_result.called
        /\ IF provider_result.called /\ ~provider_result.raised
                /\ provider_result.value # NoneV
           THEN /\ image_url = provider_result.value
                /\ warnings = << >>
           ELSE /\ image_url = Some("data:image/png;base64," \o base64_data)
                /\ Len(warnings) = 1
                /\ Contains(warnings[1], "Fallback: returning the image in base64")

C8_Witness ==
    /\ outcome = Returned
    /\ provider_result.called /\ provider_result.raised
    /\ base64_data = "QUJD"
    /\ image_url = Some("data:image/png;base64,QUJD")
    /\ Len(warnings) = 1

\* C9: with service "auto" the facade holds ImgBB whenever an ImgBB key is
\* configured, FreeImageHost when only a FreeImageHost key is configured,
\* and no uploader when neither key is configured.
C9_AutoPrefersImgBB ==
    service = "auto" =>
        /\ IMGBB_API_KEY # "" => uploader = "ImgBBUploader"
        /\ (IMGBB_API_KEY = "" /\ FREEIMAGEHOST_API_KEY # "") =>
                uploader = "FreeImageHostUploader"
        /\ (IMGBB_API_KEY = "" /\ FREEIMAGEHOST_API_KEY = "") => uploader = "None"

C9_Witness ==
    /\ service = "auto"
    /\ IMGBB_API_KEY # "" /\ FREEIMAGEHOST_API_KEY # ""
    /\ uploader = "ImgBBUploader"
    /\ outcome = Returned
    /\ image_url = Some(HostedUrl(base64_data))

\* C10: starting from the ledger {cost 0, tokens 0}, after any number of
\* calculate_cost calls made one after the other the ledger's tokens are the
\* sum of the calls' prompt_tokens + completion_tokens and its cost is the sum
\* of the total_cost values the calls returned (two calls of (1000, 500) at
\* gpt-4o-mini give cost 0.0009 = 90 units and 3000 tokens), and an accountant
\* constructed afterwards reads these totals.
C10_LedgerIsSumOfCalls ==
    /\ LoadCosts(cost_file) = [cost |-> th_returned, tokens |-> th_tokens]
    /\ th_reading # NoneV =>
          th_reading[1] = [cost |-> th_returned, tokens |-> th_tokens]
    /\ (th_pc = "save_costs" /\ th_call.prompt_tokens = 1000
            /\ th_call.completion_tokens = 500) => th_call.costs.total_cost = 45

C10_Witness ==
    /\ th_pc = "idle"
    /\ th_calls = 2
    /\ th_call = [prompt_tokens |-> 1000, completion_tokens |-> 500,
                  costs |-> [input_cost |-> 15, output_cost |-> 30, total_cost |-> 45]]
    /\ th_returned = 90
    /\ th_tokens = 3000
    /\ cost_file = JsonDump(90, 3000)
    /\ th_reading = Some([cost |-> 90, tokens |-> 3000])

\* C11: when processes run calculate_cost concurrently on a well-formed ledger,
\* no update is lost: once every process is idle the ledger's tokens are the
\* initial tokens (0) plus the sum of prompt_tokens + completion_tokens of
\* every call that returned.
C11_NoLostUpdate ==
    (\A p \in Procs : pr_pc[p] = "idle") =>
        /\ ~LoadCostsRaises(cost_file)
        /\ LoadCosts(cost_file).tokens = pr_tokens

\* C12: whatever the ledger file holds, reading the ledger returns a value
\* instead of raising, and a calculate_cost that follows returns and leaves a
\* ledger file holding an object with cost and tokens.
C12_CorruptLedgerIsZero ==
    \A p \in Procs :
        /\ pr_outcome[p] \in {NoOutcome, Returned}
        /\ (pr_pc[p] = "idle" /\ pr_op[p] = "calculate_cost" /\ lock_ex = {}
                /\ \A q \in Procs : pr_pc[q] \notin {"save_lock", "save_dump"}) =>
              /\ cost_file.kind = "json_object"
              /\ DOMAIN cost_file.members = {"cost", "tokens"}

\* C13: the accountant is one instance per process whose model name is fixed
\* by the first construction: whatever model names the constructions are
\* given, only one object is ever allocated, every construction returns it,
\* and its model name and encoding are those of the first construction.
C13_SingletonFirstNameWins ==
    /\ th_objects <= 1
    /\ th_initialized =>
          /\ th_instance = 1
          /\ th_result = th_instance
          /\ th_model_name = th_first_arg
          /\ th_encoding = GetEncodingForModel(th_first_arg)

C13_Witness ==
    /\ th_initialized
    /\ th_first_arg = "unlisted-model"
    /\ th_arg = "gpt-4o-mini"
    /\ th_model_name = "unlisted-model"
    /\ th_encoding = "p50k_base"
    /\ th_result = 1

RegistrationsOf(n) ==
    {i \in 1..Len(fc_history) : Lower(fc_history[i].name) = Lower(n)}

\* the factory most recently registered under n, << >> if there is none
LatestFactory(n) ==
    IF RegistrationsOf(n) # {}
    THEN LET last == CHOOSE i \in RegistrationsOf(n) :
                        \A j \in RegistrationsOf(n) : j <= i
         IN Some(fc_history[last].factory)
    ELSE Get(BuiltinRegistry, Lower(n))

\* every provider name pre-registered or registered since, in lower case
RegisteredNames ==
    DOMAIN BuiltinRegistry \cup {Lower(fc_history[i].name) : i \in 1..Len(fc_history)}

\* C15: after any register_client calls on top of the five pre-registered
\* names, create_client(n, model) calls the factory most recently registered
\* under n, case ignored, with the model and the Config, and for a name never
\* registered raises an error whose message lists every registered name,
\* those added at run time included.
C15_FactoryRegistry ==
    fc_outcome # NoOutcome =>
        IF LatestFactory(fc_call.client_name) # NoneV
        THEN /\ fc_outcome = Returned
             /\ fc_invoked = Some([factory |-> LatestFactory(fc_call.client_name)[1],
                                   model |-> fc_call.model, config |-> "Config"])
        ELSE /\ fc_outcome.type = "ValueError"
             /\ fc_invoked = NoneV
             /\ \A name \in RegisteredNames : Contains(fc_outcome.msg, name)

C15_Witness ==
    /\ Len(fc_history) = 2
    /\ fc_history[1] = [name |-> "Mistral", factory |-> "factoryA"]
    /\ fc_history[2] = [name |-> "mistral", factory |-> "factoryB"]
    /\ fc_call = [client_name |-> "Mistral", model |-> Some("gpt-4o")]
    /\ fc_invoked = Some([factory |-> "factoryB", model |-> Some("gpt-4o"),
                          config |-> "Config"])

C15_WitnessUnknown ==
    /\ fc_outcome # NoOutcome
    /\ fc_call.client_name = "bedrock"
    /\ fc_outcome.type = "ValueError"
    /\ Contains(fc_outcome.msg, "claude, gemini, google, mistral, openai")

\* the range of temperature the claim gives for a provider, in tenths
ClaimedMaxTemperature(provider) == IF provider = "anthropic" THEN 10 ELSE 20

\* C16: for every adapter, create_chat_completion with a temperature outside
\* the provider's range (0-2 for OpenAI, Ollama and DeepSeek, 0-1 for
\* Anthropic) or a top_p outside 0-1 fails with an invalid-parameter error
\* and issues no request to the provider.
C16_InvalidParametersFailFast ==
    (/\ ad_outcome # NoOutcome
     /\ \/ ad_call.temperature < 0
        \/ ad_call.temperature > ClaimedMaxTemperature(ad_call.provider)
        \/ ad_call.top_p < 0
        \/ ad_call.top_p > 10) =>
        /\ ad_outcome.type = "ValueError"
        /\ ad_requests = << >>

C16_Witness ==
    /\ ad_outcome.type = "ValueError"
    /\ ad_call = [provider |-> "anthropic", temperature |-> 15, top_p |-> 10]
    /\ ad_requests = << >>

\* the sampling rule of C17 for the request r of the call
SamplingRule(call, r) ==
    /\ (call.temperature = DefaultSampling /\ call.top_p = DefaultSampling) =>
          ("temperature" \in DOMAIN r /\ "top_p" \notin DOMAIN r)
    /\ (call.temperature # DefaultSampling /\ call.top_p = DefaultSampling) =>
          ("temperature" \in DOMAIN r /\ "top_p" \notin DOMAIN r)
    /\ (call.temperature = DefaultSampling /\ call.top_p # DefaultSampling) =>
          ("top_p" \in DOMAIN r /\ "temperature" \notin DOMAIN r)
    /\ "temperature" \in DOMAIN r => r.temperature = call.temperature
    /\ "top_p" \in DOMAIN r => r.top_p = call.top_p

\* C17 as claimed: for every adapter, with both temperature and top_p at
\* their defaults the request carries temperature and not top_p, with only
\* one of them non-default it carries only that one, and it never carries
\* top_p when top_p is at its default.
C17_SamplingRuleAllAdapters ==
    \A i \in 1..Len(ad_requests) : SamplingRule(ad_call, ad_requests[i])

\* C17 as amended: the rule holds for the AnthropicClient and the
\* DeepSeekClient; the OpenAIClient and the OllamaClient send both
\* temperature and top_p in every request.
C17_SamplingRuleAnthropicFormat ==
    \A i \in 1..Len(ad_requests) :
        IF ad_call.provider \in {"anthropic", "deepseek"}
        THEN SamplingRule(ad_call, ad_requests[i])
        ELSE /\ {"temperature", "top_p"} \subseteq DOMAIN ad_requests[i]
             /\ ad_requests[i].temperature = ad_call.temperature
             /\ ad_requests[i].top_p = ad_call.top_p

C17_Witness ==
    /\ ad_call = [provider |-> "deepseek", temperature |-> 10, top_p |-> 5]
    /\ ad_requests = <<[model |-> "default_model", messages |-> "messages",
                        max_tokens |-> 1400, top_p |-> 5]>>

\* every node of a tree in document order, with its depth
RECURSIVE PreOrder(_, _)
RECURSIVE PreOrderAll(_, _)
PreOrder(node, depth) ==
    <<[depth |-> depth, attrs |-> node.attrs]>> \o PreOrderAll(node.children, depth + 1)

PreOrderAll(children, depth) ==
    IF children = << >> THEN << >>
    ELSE PreOrder(Head(children), depth) \o PreOrderAll(Tail(children), depth)

IsTrue(attrs, name) == name \in DOMAIN attrs /\ Lower(attrs[name]) = "true"

\* the nodes C18 calls qualifying, in document order
Qualifying(ui_xml) ==
    IF ~ui_xml.well_formed THEN << >>
    ELSE SelectSeq(PreOrder(ui_xml.root, 0),
                   LAMBDA n : n.depth <= 12 /\ IsTrue(n.attrs, "clickable")
                                            /\ IsTrue(n.attrs, "enabled"))

\* the score C18 gives: +3 text, +2 content_desc, +1 resource_id
ScoreOfAttrs(attrs) ==
    (IF GetOr(attrs, "text", "") # "" THEN 3 ELSE 0)
  + (IF GetOr(attrs, "content-desc", "") # "" THEN 2 ELSE 0)
  + (IF GetOr(attrs, "resource-id", "") # "" THEN 1 ELSE 0)

ScoreOfCandidate(c) ==
    (IF c.text # "" THEN 3 ELSE 0) + (IF c.content_desc # "" THEN 2 ELSE 0)
  + (IF c.resource_id # "" THEN 1 ELSE 0)

\* what a candidate shows of a node
Shown(attrs) ==
    [text |-> GetOr(attrs, "text", ""), content_desc |-> GetOr(attrs, "content-desc", ""),
     resource_id |-> GetOr(attrs, "resource-id", "")]

ShownOf(c) == [text |-> c.text, content_desc |-> c.content_desc, resource_id |-> c.resource_id]

IsPrefix(a, b) == Len(a) <= Len(b) /\ SubSeq(b, 1, Len(a)) = a

\* C18: parse_ui(xml, max_items) returns the nodes with clickable and enabled
\* true at depth <= 12, by non-increasing score (+3 text, +2 content_desc,
\* +1 resource_id), nodes of equal score in document order, cut to the first
\* max_items: its length is min(max_items, number of qualifying nodes).
C18_ParseUiRanking ==
    pu_result # NoneV =>
        LET r == pu_result[1]
            q == Qualifying(pu_call.ui_xml)
            n == pu_call.max_items
        IN /\ Len(r) = IF n < Len(q) THEN n ELSE Len(q)
           /\ \A i \in 1..(Len(r) - 1) : ScoreOfCandidate(r[i]) >= ScoreOfCandidate(r[i + 1])
           /\ \A v \in 0..6 :
                 LET rv == SelectSeq(r, LAMBDA c : ScoreOfCandidate(c) = v)
                     qv == SelectSeq(q, LAMBDA x : ScoreOfAttrs(x.attrs) = v)
                 IN /\ IsPrefix([i \in 1..Len(rv) |-> ShownOf(rv[i])],
                                [i \in 1..Len(qv) |-> Shown(qv[i].attrs)])
                    /\ Len(rv) < Len(qv) =>
                          \A i \in 1..Len(r) : ScoreOfCandidate(r[i]) >= v

C18_Witness ==
    /\ pu_result # NoneV
    /\ pu_call.max_items = 2
    /\ pu_call.ui_xml.well_formed
    /\ Len(Qualifying(pu_call.ui_xml)) = 3
    /\ Len(pu_result[1]) = 2
    /\ pu_result[1][1].content_desc = "Back"
    /\ pu_result[1][2].text = "Next"

\* --------------------------------------------------------------- C19
StageOrder ==
    <<"client.parse_image", "processor.get_parsed_ui_elements",
      "selector.select_element", "llm.send_ai_request_and_return_response">>

Called(stage) == \E i \in 1..Len(fe_trace) : fe_trace[i] = stage

NoTextDetected == fe_detected # NoneV /\ fe_detected[1].parsed_text = << >>

FilteredSetEmpty == fe_elements # NoneV /\ DOMAIN fe_elements[1] = {}

\* the reply of the LLM names no key of the filtered set
SelectorFoundNoMatch ==
    /\ fe_reply # NoneV
    /\ ~fe_reply[1].raised
    /\ LET response == fe_reply[1].response
       IN  \/ "element_key" \notin DOMAIN response
           \/ response.element_key = NoneV
           \/ response.element_key[1] \notin DOMAIN fe_elements[1]

\* C19: find_element runs detect, parse-and-filter, select in that order and
\* stops at the first failure: the selector and the LLM are called only after
\* a detection with text and a non-empty filtered set; a call that found no
\* text, an empty filtered set or no match returns None; a result that is not
\* None carries image_temp_path and an element_key of the filtered set.
C19_StagesInOrderShortCircuit ==
    /\ IsPrefix(fe_trace, StageOrder)
    /\ (Called("selector.select_element")
           \/ Called("llm.send_ai_request_and_return_response"))
          => /\ fe_detected # NoneV
             /\ fe_detected[1].parsed_text # << >>
             /\ fe_elements # NoneV
             /\ DOMAIN fe_elements[1] # {}
    /\ (fe_pc = "done" /\ fe_outcome = Returned
           /\ (NoTextDetected \/ FilteredSetEmpty \/ SelectorFoundNoMatch))
          => fe_result = NoneV
    /\ fe_result # NoneV
          => /\ fe_pc = "done"
             /\ fe_trace = StageOrder
             /\ "image_temp_path" \in DOMAIN fe_result[1]
             /\ fe_result[1].image_temp_path = fe_detected[1].image_temp_path
             /\ "element_key" \in DOMAIN fe_result[1]
             /\ fe_result[1].element_key \in DOMAIN fe_elements[1]

\* a call in which the filter dropped a detected element and the LLM named
\* icon3, one of those that were kept
C19_Witness ==
    /\ fe_pc = "done"
    /\ fe_result # NoneV
    /\ fe_call.element_type = "interactive"
    /\ fe_detected[1].parsed_text = <<LineTime, LineYouTube>>
    /\ DOMAIN fe_elements[1] = {"icon3"}
    /\ fe_result[1].element_key = "icon3"
    /\ fe_result[1].element_data.content = "YouTube "
    /\ fe_result[1].image_temp_path = ImageTempPath

\* a call that stopped after the filter: text was detected, none of its kind
C19_WitnessEmptyFilter ==
    /\ fe_pc = "done"
    /\ fe_detected # NoneV
    /\ fe_detected[1].parsed_text # << >>
    /\ FilteredSetEmpty
    /\ fe_trace = SubSeq(StageOrder, 1, 2)

\* --------------------------------------------------------------- C20
\* C20: an error raised by an LLM call made for Do, VisualCheck or the
\* element selector of the vision pipeline reaches the caller of the
\* operation as an error and never becomes a normal return value.  Stated
\* here for the element selector: a find_element call whose LLM request
\* raised ends with that error.
C20_SelectorErrorPropagates ==
    (fe_pc = "done" /\ fe_reply # NoneV /\ fe_reply[1].raised)
        => /\ fe_outcome # Returned
           /\ fe_outcome.type = "APIError"

\* --------------------------------------------------------------- C21
\* the integer nearest to zero among those between zero and num / den
TruncatedTowardZero(num, den, bound) ==
    CHOOSE k \in -bound..bound :
        IF num >= 0 THEN k * den <= num /\ num < (k + 1) * den
        ELSE (k - 1) * den < num /\ num <= k * den

BboxRule ==
    bb_outcome # NoOutcome =>
        LET bbox == bb_call.bbox_normalized
            w == bb_call.image_width
            h == bb_call.image_height
        IN  IF Len(bbox) = 4
            THEN /\ bb_outcome = Returned
                 /\ bb_result # NoneV
                 /\ Len(bb_result[1]) = 4
                 /\ \A i \in 1..4 :
                       LET dimension == IF i \in {1, 3} THEN w ELSE h
                       IN  bb_result[1][i]
                             = TruncatedTowardZero(bbox[i] * dimension, 1000, dimension)
            ELSE /\ bb_outcome.type = "ValueError"
                 /\ bb_result = NoneV

ExampleCall ==
    /\ bb_outcome # NoOutcome
    /\ bb_call = [bbox_normalized |-> ExampleBbox, image_width |-> 1080,
                  image_height |-> 1920]

C21_WitnessNegative ==
    /\ bb_outcome = Returned
    /\ bb_call.bbox_normalized = <<-5, -5, 574, 1000>>
    /\ bb_result = Some(<<-5, -9, 619, 1920>>)

\* --------------------------------------------------------------- C22
\* the reply for Do is malformed: no tool calls, an unknown tool, a missing
\* element_index or text, or an index out of range
MalformedDo(res, candidates) ==
    LET tool_calls == GetOr(res, "tool_calls", << >>)
    IN  \/ tool_calls = << >>
        \/ LET f == tool_calls[1].function
           IN  \/ f.name \notin {"tap_element", "input_text", "scroll_down"}
               \/ /\ f.name \in {"tap_element", "input_text"}
                  /\ \/ "element_index" \notin DOMAIN f.arguments
                     \/ f.arguments.element_index \notin 1..Len(candidates)
               \/ /\ f.name = "input_text"
                  /\ \/ "text" \notin DOMAIN f.arguments
                     \/ f.arguments.text = ""

\* the reply for VisualCheck is malformed: no tool calls, another tool, or a
\* required field missing
MalformedVisual(res) ==
    LET tool_calls == GetOr(res, "tool_calls", << >>)
    IN  \/ tool_calls = << >>
        \/ LET f == tool_calls[1].function
           IN  \/ f.name # "verify_visual_match"
               \/ ~({"verification_result", "confidence_score", "analysis"}
                       \subseteq DOMAIN f.arguments)

\* C22: every malformed model response makes Do or VisualCheck end in an
\* AssertionError; none makes them end in another error or succeed.
C22_MalformedIsAssertionFailure ==
    /\ (op = "do" /\ pc \in {"done", "failed"} /\ result # NoneV
           /\ MalformedDo(result[1], ui_candidates))
          => outcome.type = "AssertionError"
    /\ (op = "_execute_visual_check_from_tool_calls" /\ pc \in {"done", "failed"}
           /\ result # NoneV /\ MalformedVisual(result[1]))
          => outcome.type = "AssertionError"

\* the part of C22 about Do
C22_MalformedDoIsAssertionFailure ==
    (op = "do" /\ pc \in {"done", "failed"} /\ result # NoneV
        /\ MalformedDo(result[1], ui_candidates))
       => outcome.type = "AssertionError"

\* --------------------------------------------------------------- C23
\* the dispatch that just failed
FailedDispatch ==
    /\ op = "do" /\ pc = "failed"
    /\ outcome.type = "RobotKeywordError"
    /\ dispatched # << >>

\* C23: every dispatch is logged before it runs and after it returns, and a
\* dispatch that raises is logged as failed before the same exception reaches
\* the caller of Do.
C23_DispatchLoggedAndReraised ==
    /\ op = "do" =>
          \A i \in 1..Len(dispatched) :
              \E j \in 1..Len(runner_log) :
                  /\ runner_log[j].event = "EXECUTING"
                  /\ runner_log[j].keyword = dispatched[i].keyword
    /\ op = "do" => Len(success_log) <= Len(dispatched)
    /\ FailedDispatch =>
          /\ outcome.msg = dispatched[Len(dispatched)].keyword
          /\ \E j \in 1..Len(runner_log) :
                /\ runner_log[j].level = "error"
                /\ runner_log[j].keyword = dispatched[Len(dispatched)].keyword

\* the parts of C23 the handler keeps: the lines before and after a dispatch,
\* and the exception of a failed dispatch reaching the caller as it was raised
C23_DispatchLoggedAroundAndReraised ==
    /\ op = "do" =>
          /\ Len(runner_log) = 2 * Len(dispatched) + Len(success_log)
          /\ \A i \in 1..Len(dispatched) :
                \E j \in 1..Len(runner_log) :
                    /\ runner_log[j].event = "EXECUTING"
                    /\ runner_log[j].keyword = dispatched[i].keyword
    /\ FailedDispatch => outcome.msg = dispatched[Len(dispatched)].keyword

\* --------------------------------------------------------------- C24
Contribution(p) == pr_call[p].prompt_tokens + pr_call[p].completion_tokens

\* both processes ran calculate_cost to its end from the same base value
BothFinishedFromSameBase ==
    /\ \A p \in Procs :
          /\ pr_pc[p] = "idle"
          /\ pr_op[p] = "calculate_cost"
          /\ pr_outcome[p] = Returned
          /\ pr_old_data[p] # NoneV
    /\ pr_old_data[1] = pr_old_data[2]

\* C24: a process holds no lock between its ledger read and its ledger
\* write, so two processes running calculate_cost can both read the same base
\* value before either writes, and the ledger then holds the base plus only
\* one of the two contributions.
C24_LostUpdateWindow ==
    /\ \A p \in Procs :
          pr_pc[p] = "save_open" => (p \notin lock_sh /\ p \notin lock_ex)
    /\ BothFinishedFromSameBase =>
          /\ cost_file.kind = "json_object"
          /\ \E p \in Procs :
                LoadCosts(cost_file).tokens = pr_old_data[p][1].tokens + Contribution(p)
          /\ LoadCosts(cost_file).tokens < pr_tokens

\* the interleaving: both read the ledger at 0, both wrote, and the ledger
\* holds the 1500 tokens of one process although 2500 were accounted
C24_Witness ==
    /\ BothFinishedFromSameBase
    /\ pr_old_data[1] = Some(ZeroLedger)
    /\ Contribution(1) = 1000
    /\ Contribution(2) = 1500
    /\ pr_tokens = 2500
    /\ LoadCosts(cost_file).tokens = 1500

\* --------------------------------------------------------------- C29
\* C29: a ledger read that runs while another process writes returns the
\* ledger before or after that write; once a total above zero has been
\* written, no read returns the {cost 0, tokens 0} default.
C29_ReadNeverSeesTruncation ==
    [][\A p \in Procs :
          (pr_pc[p] = "load_read" /\ pr_pc'[p] # "load_read" /\ pr_tokens > 0)
             => pr_old_data'[p] # Some(ZeroLedger)]_vars

\* --------------------------------------------------------------- C27
Position(events, e) == CHOOSE i \in 1..Len(events) : events[i] = e

Occurs(events, e) == \E i \in 1..Len(events) : events[i] = e

\* C27: for an in-memory image or bytes, parse_screenshot writes a temporary
\* file that still exists when the hosted model is invoked and that no longer
\* exists once parse_screenshot has returned.
C27_TempFileLivesThroughCall ==
    (ps_pc = "done" /\ ps_image.kind \in {"Image", "bytes"}) =>
        /\ Occurs(ps_events, "write")
        /\ Occurs(ps_events, "predict")
        /\ Occurs(ps_events, "remove")
        /\ Position(ps_events, "write") < Position(ps_events, "predict")
        /\ Position(ps_events, "predict") < Position(ps_events, "remove")
        /\ TempPath \notin ps_files

\* the part of C27 the code keeps: the file is written and is gone on return
C27_TempFileGoneOnReturn ==
    (ps_pc = "done" /\ ps_image.kind \in {"Image", "bytes"}) =>
        /\ Occurs(ps_events, "write")
        /\ Occurs(ps_events, "remove")
        /\ TempPath \notin ps_files

\* --------------------------------------------------------------- C28
\* the candidates in priority order: the output directory of the host
\* runner, CI_LOG_DIR, logs under the working directory, the temp directory
LogCandidates(env) ==
    (IF env.output_dir = NoneV THEN << >> ELSE <<env.output_dir[1]>>)
        \o (IF env.ci_log_dir = NoneV THEN << >> ELSE <<env.ci_log_dir[1]>>)
        \o <<CwdLogs, TempDir>>

\* the first writable candidate, the temp directory if there is none
FirstWritable(env) ==
    LET c == LogCandidates(env)
        ok == { i \in 1..Len(c) : c[i] \in env.writable }
    IN  IF ok = {} THEN TempDir
        ELSE c[CHOOSE i \in ok : \A j \in ok : i <= j]

\* C28: the first write resolves the destination by probing the candidates in
\* priority order; the first writable one wins and the temp directory is used
\* when no probe succeeds, so no unwritable candidate is chosen while a
\* candidate below it is writable.
C28_FirstWritableWins ==
    [][(lg_log_path = NoneV /\ lg_log_path' # NoneV)
          => lg_log_path'[1] = PathJoin(FirstWritable(lg_env), _default_filename)]_vars

\* the part of C28 the code keeps: the candidates below the output directory
C28_FirstWritableWinsBelowOutputDir ==
    [][(lg_log_path = NoneV /\ lg_log_path' # NoneV /\ lg_env.output_dir = NoneV)
          => lg_log_path'[1] = PathJoin(FirstWritable(lg_env), _default_filename)]_vars

\* --------------------------------------------------------------- C30
ShownNumbers == { pm_rendered[1].lines[k].number : k \in 1..Len(pm_rendered[1].lines) }

\* C30: the number under which the Do prompt shows a candidate is the
\* element_index the step runner resolves to that candidate; the prompt shows
\* exactly the numbers 1..len(candidates), so it shows no number the runner
\* refuses and leaves out no candidate the runner accepts.
C30_PromptNumbersMatchIndices ==
    pm_rendered # NoneV =>
        LET lines == pm_rendered[1].lines
        IN  /\ ShownNumbers = 1..Len(pm_candidates)
            /\ \A k \in 1..Len(lines) :
                  /\ ~InvalidElementIndex(Some(lines[k].number), Len(pm_candidates))
                  /\ lines[k].description
                       = Describe(ElementAt(pm_candidates, lines[k].number))
            /\ \A j, k \in 1..Len(lines) :
                  lines[j].number = lines[k].number => j = k
            /\ (pm_pc = "resolved" /\ pm_outcome = Returned) =>
                  \E k \in 1..Len(lines) :
                      /\ lines[k].number = pm_index[1]
                      /\ lines[k].description = Describe(pm_resolved[1])
            /\ (pm_pc = "resolved" /\ pm_outcome # Returned) =>
                  pm_index[1] \notin ShownNumbers

\* a screen with more clickable nodes than collect_ui_candidates returns, and
\* the reply naming the last number shown
C30_Witness ==
    /\ pm_pc = "resolved"
    /\ Len(pm_candidates) = DefaultMaxItems
    /\ pm_index = Some(DefaultMaxItems)
    /\ pm_outcome = Returned
    /\ pm_resolved[1].text = "item20"
    /\ pm_rendered[1].lines[DefaultMaxItems]
         = [number |-> 20, description |-> "text='item20' | class='Button'"]

\* the provider's reply to the running Do carries a tool_calls list
DoReplyHasToolCalls ==
    /\ op = "do"
    /\ llm_calls # << >>
    /\ llm_calls[1].formatted # NoneV
    /\ "tool_calls" \in DOMAIN llm_calls[1].formatted[1]

DoReply == llm_calls[1].formatted[1]

\* C26: what do() hands to its decision resolution is the format_response
\* output of the reply with its tool_calls list, so a reply whose first tool
\* call is tap_element(i) with a valid i ends in the 'Click Element' dispatch
\* on candidate i and never in the no-tool-calls failure.
C26_ToolCallsReachResolution ==
    DoReplyHasToolCalls =>
        /\ result = Some(DoReply)
        /\ LET call == FirstToolCall(DoReply.tool_calls).function
           IN (/\ call.name = "tap_element"
               /\ IndexInRange(call.arguments, Len(ui_candidates))
               /\ pc \in {"done", "failed"}) =>
                 /\ outcome # Raised("AssertionError", "AI did not return any tool calls")
                 /\ dispatched
                      = <<RfCall("Click Element",
                            <<BuildLocatorFromElement(
                                ui_candidates[call.arguments.element_index])>>)>>

\* the position of a step of do() among the stages CAPTURE_UI (1),
\* COMPOSE_PROMPT and CALL_MODEL (2), RESOLVE_DECISION (3), DISPATCH (4),
\* DONE (5) and FAILED (6)
DoStage(p) ==
    CASE p = "collect_ui_candidates" -> 1
      [] p = "ask_ai_do" -> 2
      [] p = "execute_do" -> 3
      [] p \in {"click_element", "clear_text", "input_text", "swipe"} -> 4
      [] p = "done" -> 5
      [] OTHER -> 6

\* what has happened so far in the running Do is a prefix of the stage order
DoStagesSoFar ==
    op = "do" =>
        /\ ui_captures <= 1
        /\ Len(llm_calls) <= 1
        /\ ui_captures = (IF DoStage(pc) \in 2..5 THEN 1 ELSE ui_captures)
        /\ Len(llm_calls) = (IF DoStage(pc) \in 3..5 THEN 1 ELSE Len(llm_calls))
        /\ DoStage(pc) \in 1..2 => llm_calls = << >>
        /\ DoStage(pc) \in 1..3 => dispatched = << >>
        /\ llm_calls # << >> =>
              /\ ui_captures = 1
              /\ llm_calls[1].flow = "do"
              /\ llm_calls[1].temperature = 0
              /\ llm_calls[1].ui_elements = ui_candidates
        /\ result # NoneV => (llm_calls # << >> /\ llm_calls[1].formatted # NoneV)
        /\ dispatched # << >> => result # NoneV
        /\ rf_locator # "" =>
              \E i \in 1..Len(ui_candidates) :
                  rf_locator = BuildLocatorFromElement(ui_candidates[i])
        /\ pc = "done" => (dispatched # << >> /\ outcome = Returned)
        /\ pc = "failed" => outcome \notin {NoOutcome, Returned}

\* a step of the running Do: each stage acts only in its turn, the next
\* position is a later stage (or the second dispatch of input_text), and
\* nothing runs after DONE or FAILED
DoStageStep ==
    (op = "do" /\ op' = "do" /\ <<kwVars, doLocals>>' # <<kwVars, doLocals>>) =>
        /\ DoStage(pc) \in 1..4
        /\ \/ DoStage(pc') > DoStage(pc)
           \/ pc = "clear_text" /\ pc' = "input_text"
        /\ DoStage(pc') \in 2..5 => DoStage(pc') <= DoStage(pc) + 1
        /\ <<ui_candidates, ui_captures>>' # <<ui_candidates, ui_captures>> => DoStage(pc) = 1
        /\ llm_calls' # llm_calls => DoStage(pc) = 2
        /\ result' # result => (DoStage(pc) = 2 /\ DoStage(pc') = 3)
        /\ rf_locator' # rf_locator => DoStage(pc) = 3
        /\ dispatched' # dispatched => DoStage(pc) = 4

\* C25: a Do goes through capture, prompt and model call at temperature 0,
\* resolution, dispatch and done in that order, each at most once; nothing
\* is dispatched before the model call has returned, the prompt and the
\* resolution use the candidates captured by this invocation, and a failure
\* ends the invocation with no later stage executed.
C25_DoStagesInOrder == []DoStagesSoFar /\ [][DoStageStep]_vars

\* a Do that ran every stage and ended after one tap dispatch
C25_Witness ==
    /\ op = "do" /\ pc = "done"
    /\ ui_captures = 1
    /\ Len(ui_candidates) = 2
    /\ llm_calls = <<DoRequest(ui_candidates, llm_calls[1].formatted)>>
    /\ llm_calls[1].formatted # NoneV
    /\ result = Some(llm_calls[1].formatted[1].content.object)
    /\ Len(dispatched) = 1
    /\ dispatched[1] = RfCall("Click Element", <<rf_locator>>)
    /\ rf_locator = BuildLocatorFromElement(ui_candidates[2])

====
